---- MODULE Spec2Model ----
(***************************************************************************)
(* State-machine model of the LDaCA web front end: the global auth state   *)
(* of useAuth and App's gating on it, the backend health hook, the         *)
(* workspace selection shared by the sidebar and the graph view, the graph *)
(* view's debounced update and its node mutations, the Filter tab, the     *)
(* tabs' request/error handling, the two-node comparison tabs, the token   *)
(* results, the Timeline tab, the join form and the Concordance tab.       *)
(*                                                                         *)
(* Every subsystem has its own variables, its own initial predicate and    *)
(* its own specification (SpecAuth, SpecHealth, ...); the actions of one   *)
(* subsystem leave the variables of the others unchanged.                  *)
(***************************************************************************)
EXTENDS Naturals, Integers, Sequences, FiniteSets, TLC

VARIABLES
  \* ---- useAuth (module-level singleton) and its environment
  backendMultiUser,   \* the backend's MULTI_USER setting (environment)
  hasToken,           \* localStorage 'auth_token' is present
  globalAuthInfo,     \* AuthInfoResponse | null
  globalIsLoading,
  globalError,        \* "null" or "err"
  inFlight,           \* id of the in-flight promise, 0 for null
  refreshIntervalId,  \* TRUE once the 5-minute interval is installed
  listeners,          \* number of registered listeners
  authRequests,       \* outstanding authApi.getAuthInfo requests
  issued,             \* number of getAuthInfo requests issued so far
  pendingLogin,       \* authApi.authenticateWithGoogle calls awaiting their result
  pendingLogout,      \* authApi.logout calls awaiting their result
  lastReturned,       \* promise id returned by fetchAuthInfoOnce in the last step (0: not called)
  notified,           \* listener invocations made by the last step
  fetchOutcome,       \* how the auth-info fetch settled last: "none", "ok", "failed"
  \* ---- useBackendHealth
  hMounted,           \* the hook's component is mounted
  hEnabled,           \* the `enabled` prop
  hTimer,             \* the polling interval is installed
  isHealthy,
  isChecking,
  status,             \* 'healthy' | 'starting' | 'not_found' | 'error'
  healthError,        \* error message, "null" for null
  checks,             \* ids of the health checks in flight
  checksStarted,      \* number of health checks started so far
  lastCompleted,      \* the check that completed last (id 0: none yet): id, outcome, and
                      \* whether the hook was enabled and mounted when it completed
  \* ---- useWorkspace store, as the components read it
  workspaceGraph,     \* [nodes, edges] as the backend returned them
  selectedNodeIds,    \* selected node ids, in selection order
  currentWorkspaceId, \* "null" or the id of the current workspace
  \* ---- Sidebar node list and graph view clicks
  sidebarChecked,     \* the `checked` attribute the sidebar rendered for each node
  selCalls,           \* selection operations the last handler called
  lastEvent,          \* the UI event handled last
  clickHist,          \* the graph-node clicks made in succession (at most the last two)
  \* ---- WorkspaceGraphView: React Flow state and the debounced update
  nodes,              \* React Flow nodes on display
  edges,              \* React Flow edges on display
  rafQueue,           \* animation-frame callbacks requested and not yet run or cancelled
  updateRafRef,       \* updateRafRef.current (0 for null)
  rafIssued,          \* number of requestAnimationFrame calls so far
  effectDeps,         \* dependency values of the update effect's last run (<<>>: not mounted)
  hasCleanup,         \* the effect's last run returned its cleanup function
  lastEffect,         \* what the effect did in the last step
  appliedInFrame,     \* graph updates applied by the last animation frame
  burst,              \* graph changes since the last animation frame
  burstAtFrame,       \* value of burst when the last animation frame began
  \* ---- node mutations from the graph view and the query cache
  mutPending,         \* mutation REST calls in flight
  mutIssued,          \* number of mutation handlers invoked so far
  backendVer,         \* per node: mutations the backend has applied
  cacheVer,           \* per node: backend version the cached node data / schema was read at
  refetchPending,     \* refetches started by an invalidation and not yet answered
  lastInvalidation,   \* what the last handler invalidated and whether its mutation had settled
  preMutationReads,   \* mutations whose invalidation refetch read the data before they were applied
  \* ---- FilterTab
  conditions,         \* the filter conditions of the form
  isFiltering,        \* a filter request is being applied
  opsLoading,         \* isLoading.operations of the workspace
  filterSent,         \* conditions of the filter request sent last (<<>> if none yet)
  filterAlert,        \* text of the alert raised by the last handler run ("none" if none)
  lastApply,          \* the last click on Apply Filter: did a column lack, was a request sent
  \* ---- backend requests issued from the tabs
  reqPending,         \* requests in flight
  reqIssued,          \* number of requests issued so far
  userActions,        \* number of user actions that ask for a request so far
  lastFailure,        \* kind of the request that failed last and where its error went
  alertShown,         \* kind of the request whose failure raised the last alert dialog
  inlineShown,        \* kind of the request whose failure is shown inline
  consoleLogged,      \* kind of the request whose failure was logged to the console last
  \* ---- the analysis tabs that compare nodes (Token Frequency, Topic Modeling)
  cmpTab,             \* the analysis tab on display
  nodeColumnSelections, \* the tab's text-column choice per selected node
  cmpBusy,            \* isAnalyzing / isRunning of the tab
  cmpPending,         \* the tab's request in flight
  cmpAlert,           \* text of the alert raised by the tab's last handler run
  \* ---- App tabs and the Token Frequency results
  activeTab,          \* App's activeTab
  pendingConcordanceSearch, \* localStorage item 'pendingConcordanceSearch'
  tfResults,          \* Token Frequency results with tokens are on display
  stopWords,          \* the stop-word text of the Token Frequency tab, a sequence of characters
  lastTokenEvent,     \* the last user event of this part: kind, token, stop words before it
  \* ---- TimelineTab
  timeColumn,         \* the time column chosen
  groupByColumns,     \* the group-by entries of the form ('' for an entry not chosen yet)
  tlAnalyzing,        \* isAnalyzing
  tlRequest,          \* the analysis request sent last and the entries it was built from
  tlAlert,            \* text of the alert raised by the last handler run
  \* ---- JoinInterface
  leftOn,             \* join column of the left node ('' when none)
  rightOn,            \* join column of the right node
  how,                \* the join type selected
  joinIsLoading,      \* isLoading of the join form
  joinCall,           \* the last onJoin call: its arguments
  joinAlert,          \* text of the alert raised by the last handler run
  \* ---- ConcordanceTab
  cnSearchWord,       \* searchWord, a text
  currentPage,        \* currentPage
  pageSize,           \* pageSize
  sortBy,             \* sortBy ('' when unsorted)
  sortOrder,          \* sortOrder
  isSearching,        \* isSearching
  results,            \* results: absent, or the response on display and its request
  cnTimers,           \* setTimeout callbacks not yet run: the render values each closes
                      \* over, and the form values its handler has set
  cnInFlight,         \* concordanceSearch calls awaiting their response
  cnIssued,           \* number of concordanceSearch calls made
  cnLast,             \* the request issued last, what triggered it and the state it left
  cnLatestOk          \* newest request answered successfully since results were last absent

authVars == <<backendMultiUser, hasToken, globalAuthInfo, globalIsLoading, globalError,
              inFlight, refreshIntervalId, listeners, authRequests, issued,
              pendingLogin, pendingLogout, lastReturned, notified, fetchOutcome>>

healthVars == <<hMounted, hEnabled, hTimer, isHealthy, isChecking, status, healthError,
                checks, checksStarted, lastCompleted>>

wsVars == <<workspaceGraph, selectedNodeIds, currentWorkspaceId>>

selVars == <<sidebarChecked, selCalls, lastEvent, clickHist>>

gvVars == <<nodes, edges, rafQueue, updateRafRef, rafIssued, effectDeps, hasCleanup,
            lastEffect, appliedInFrame, burst, burstAtFrame>>

mutVars == <<mutPending, mutIssued, backendVer, cacheVer, refetchPending,
             lastInvalidation, preMutationReads>>

filterVars == <<conditions, isFiltering, opsLoading, filterSent, filterAlert, lastApply>>

reqVars == <<reqPending, reqIssued, userActions, lastFailure, alertShown, inlineShown,
             consoleLogged>>

cmpVars == <<cmpTab, nodeColumnSelections, cmpBusy, cmpPending, cmpAlert>>

tokVars == <<activeTab, pendingConcordanceSearch, tfResults, stopWords, lastTokenEvent>>

tlVars == <<timeColumn, groupByColumns, tlAnalyzing, tlRequest, tlAlert>>

joinVars == <<leftOn, rightOn, how, joinIsLoading, joinCall, joinAlert>>

cnVars == <<cnSearchWord, currentPage, pageSize, sortBy, sortOrder, isSearching, results,
            cnTimers, cnInFlight, cnIssued, cnLast, cnLatestOk>>

vars == <<authVars, healthVars, wsVars, selVars, gvVars, mutVars, filterVars, reqVars,
          cmpVars, tokVars, tlVars, joinVars, cnVars>>

exceptAuth == <<healthVars, wsVars, selVars, gvVars, mutVars, filterVars, reqVars, cmpVars,
  tokVars, tlVars, joinVars, cnVars>>
exceptHealth == <<authVars, wsVars, selVars, gvVars, mutVars, filterVars, reqVars, cmpVars,
  tokVars, tlVars, joinVars, cnVars>>
exceptSelection == <<authVars, healthVars, gvVars, mutVars, filterVars, reqVars, cmpVars,
  tokVars, tlVars, joinVars, cnVars>>
exceptGraphView == <<authVars, healthVars, mutVars, filterVars, reqVars, cmpVars,
  tokVars, tlVars, joinVars, cnVars>>
exceptMutation == <<authVars, healthVars, selVars, filterVars, reqVars, cmpVars,
  tokVars, tlVars, joinVars, cnVars>>
exceptFilter == <<authVars, healthVars, wsVars, selVars, gvVars, mutVars, reqVars, cmpVars,
  tokVars, tlVars, joinVars, cnVars>>
exceptRequests == <<authVars, healthVars, wsVars, selVars, gvVars, mutVars, filterVars,
                    cmpVars, tokVars, tlVars, joinVars, cnVars>>
exceptCompare == <<authVars, healthVars, gvVars, mutVars, filterVars, reqVars, tokVars, tlVars, joinVars, cnVars>>
exceptTokens == <<authVars, healthVars, gvVars, mutVars, filterVars, reqVars, tlVars, joinVars, cnVars>>
exceptTimeline == <<authVars, healthVars, wsVars, selVars, gvVars, mutVars, filterVars,
                    reqVars, cmpVars, tokVars, joinVars, cnVars>>
exceptJoin == <<authVars, healthVars, wsVars, selVars, gvVars, mutVars, filterVars,
                reqVars, cmpVars, tokVars, tlVars, cnVars>>
exceptConcordance == <<authVars, healthVars, wsVars, selVars, gvVars, mutVars, filterVars,
                       reqVars, cmpVars, tokVars, tlVars, joinVars>>

-----------------------------------------------------------------------------
(* Bounds *)

MaxComponents == 2    \* mounted useAuth components
MaxRequests == 3      \* getAuthInfo requests issued in one behaviour
MaxPending == 1       \* overlapping login (resp. logout) calls
MaxChecks == 3        \* health checks started in one behaviour
MaxRaf == 4           \* requestAnimationFrame calls in one behaviour
MaxBurst == 3         \* graph changes between two animation frames
MaxMutations == 2     \* mutation handlers invoked in one behaviour
MaxConditions == 2    \* filter conditions in the form
MaxUserActions == 3   \* user actions that ask for a request in one behaviour
MaxSearches == 3      \* concordance requests in one behaviour
MaxTimers == 1        \* setTimeout callbacks of the Concordance tab waiting to run
MaxPage == 2          \* highest page number the Concordance tab is taken to

\* Program constants
MaxGroupBy == 3       \* "Group By Columns (Optional, max 3)"

-----------------------------------------------------------------------------
(* useAuth *)

NullInfo == [present |-> FALSE, authenticated |-> FALSE,
             multi_user_mode |-> FALSE, requires_authentication |-> FALSE]

\* What the backend answers to GET /api/auth/ for a client holding (or not) a token.
BackendAuthInfo(token) ==
  [present |-> TRUE,
   authenticated |-> IF backendMultiUser THEN token ELSE TRUE,
   multi_user_mode |-> backendMultiUser,
   requires_authentication |-> backendMultiUser]

\* Computed values of the hook (globalAuthInfo?.x ?? false)
isAuthenticated == IF globalAuthInfo.present THEN globalAuthInfo.authenticated ELSE FALSE
isMultiUserMode == IF globalAuthInfo.present THEN globalAuthInfo.multi_user_mode ELSE FALSE
requiresAuthentication ==
  IF globalAuthInfo.present THEN globalAuthInfo.requires_authentication ELSE FALSE

\* What App renders from the hook's values.
AppScreen ==
  IF globalIsLoading THEN "loading"
  ELSE IF ~isAuthenticated /\ isMultiUserMode THEN "login"
  ELSE "main"

\* fetchAuthInfoOnce without the in-flight check: every call issues a request.
FetchAuthInfoAlways(token) ==
  /\ issued < MaxRequests
  /\ globalIsLoading' = TRUE
  /\ globalError' = "null"
  /\ issued' = issued + 1
  /\ inFlight' = issued + 1
  /\ authRequests' = authRequests \cup {[id |-> issued + 1, token |-> token]}
  /\ lastReturned' = issued + 1

\* fetchAuthInfoOnce, called by a client whose token state is `token`.
FetchAuthInfoOnce(token) ==
  IF inFlight # 0
    THEN /\ lastReturned' = inFlight
         /\ UNCHANGED <<globalIsLoading, globalError, inFlight, authRequests, issued>>
    ELSE /\ issued < MaxRequests
         /\ globalIsLoading' = TRUE
         /\ globalError' = "null"
         /\ issued' = issued + 1
         /\ inFlight' = issued + 1
         /\ authRequests' = authRequests \cup {[id |-> issued + 1, token |-> token]}
         /\ lastReturned' = issued + 1

\* useAuth mount effect: subscribe, initial load if needed, ensureRefreshInterval.
Mount ==
  /\ listeners < MaxComponents
  /\ listeners' = listeners + 1
  /\ IF ~globalAuthInfo.present /\ inFlight = 0
       THEN FetchAuthInfoOnce(hasToken)
       ELSE /\ lastReturned' = 0
            /\ UNCHANGED <<globalIsLoading, globalError, inFlight, authRequests, issued>>
  /\ refreshIntervalId' = TRUE
  /\ notified' = 0
  /\ UNCHANGED <<backendMultiUser, hasToken, globalAuthInfo, pendingLogin, pendingLogout>>
  /\ UNCHANGED fetchOutcome
  /\ UNCHANGED exceptAuth

\* The 5-minute interval installed by ensureRefreshInterval fires.
RefreshTimer ==
  /\ refreshIntervalId
  /\ FetchAuthInfoOnce(hasToken)
  /\ notified' = 0
  /\ UNCHANGED <<backendMultiUser, hasToken, globalAuthInfo, refreshIntervalId, listeners,
                 pendingLogin, pendingLogout>>
  /\ UNCHANGED fetchOutcome
  /\ UNCHANGED exceptAuth

\* refreshAuth, called by a mounted component.
RefreshAuth ==
  /\ listeners > 0
  /\ FetchAuthInfoOnce(hasToken)
  /\ notified' = 0
  /\ UNCHANGED <<backendMultiUser, hasToken, globalAuthInfo, refreshIntervalId, listeners,
                 pendingLogin, pendingLogout>>
  /\ UNCHANGED fetchOutcome
  /\ UNCHANGED exceptAuth

\* The in-flight request settles with a finally block that leaves
\* globalIsLoading as it is.
FetchSettleKeepsLoading ==
  \E r \in authRequests, ok \in BOOLEAN, t \in BOOLEAN :
    /\ t \in {r.token, hasToken}
    /\ authRequests' = authRequests \ {r}
    /\ globalAuthInfo' = IF ok THEN BackendAuthInfo(t) ELSE NullInfo
    /\ globalError' = IF ok THEN globalError ELSE "err"
    /\ globalIsLoading' = globalIsLoading
    /\ inFlight' = 0
    /\ notified' = listeners
    /\ lastReturned' = 0
    /\ fetchOutcome' = IF ok THEN "ok" ELSE "failed"
    /\ UNCHANGED <<backendMultiUser, hasToken, refreshIntervalId, listeners, issued,
                   pendingLogin, pendingLogout>>
    /\ UNCHANGED exceptAuth

\* The in-flight request settles: try / catch / finally of fetchAuthInfoOnce.
\* The backend answers for the token state it saw, at the latest the current one.
FetchSettle ==
  \E r \in authRequests, ok \in BOOLEAN, t \in BOOLEAN :
    /\ t \in {r.token, hasToken}
    /\ authRequests' = authRequests \ {r}
    /\ globalAuthInfo' = IF ok THEN BackendAuthInfo(t) ELSE NullInfo
    /\ globalError' = IF ok THEN globalError ELSE "err"
    /\ globalIsLoading' = FALSE
    /\ inFlight' = 0
    /\ notified' = listeners
    /\ lastReturned' = 0
    /\ fetchOutcome' = IF ok THEN "ok" ELSE "failed"
    /\ UNCHANGED <<backendMultiUser, hasToken, refreshIntervalId, listeners, issued,
                   pendingLogin, pendingLogout>>
    /\ UNCHANGED exceptAuth

\* loginWithGoogle up to its first await.
LoginWithGoogle ==
  /\ listeners > 0
  /\ isMultiUserMode            \* otherwise it throws before touching any state
  /\ pendingLogin < MaxPending
  /\ globalError' = "null"
  /\ notified' = listeners
  /\ pendingLogin' = pendingLogin + 1
  /\ lastReturned' = 0
  /\ UNCHANGED <<backendMultiUser, hasToken, globalAuthInfo, globalIsLoading, inFlight,
                 refreshIntervalId, listeners, authRequests, issued, pendingLogout>>
  /\ UNCHANGED fetchOutcome
  /\ UNCHANGED exceptAuth

\* authenticateWithGoogle resolved: store the token, then fetchAuthInfoOnce.
LoginSucceeds ==
  /\ pendingLogin > 0
  /\ pendingLogin' = pendingLogin - 1
  /\ hasToken' = TRUE
  /\ FetchAuthInfoOnce(TRUE)
  /\ notified' = 0
  /\ UNCHANGED <<backendMultiUser, globalAuthInfo, refreshIntervalId, listeners, pendingLogout>>
  /\ UNCHANGED fetchOutcome
  /\ UNCHANGED exceptAuth

\* authenticateWithGoogle rejected: catch branch of loginWithGoogle.
LoginFails ==
  /\ pendingLogin > 0
  /\ pendingLogin' = pendingLogin - 1
  /\ globalError' = "err"
  /\ notified' = listeners
  /\ lastReturned' = 0
  /\ UNCHANGED <<backendMultiUser, hasToken, globalAuthInfo, globalIsLoading, inFlight,
                 refreshIntervalId, listeners, authRequests, issued, pendingLogout>>
  /\ UNCHANGED fetchOutcome
  /\ UNCHANGED exceptAuth

\* logout up to its first await (a no-op in single-user mode).
Logout ==
  /\ listeners > 0
  /\ isMultiUserMode
  /\ pendingLogout < MaxPending
  /\ globalError' = "null"
  /\ notified' = listeners
  /\ pendingLogout' = pendingLogout + 1
  /\ lastReturned' = 0
  /\ UNCHANGED <<backendMultiUser, hasToken, globalAuthInfo, globalIsLoading, inFlight,
                 refreshIntervalId, listeners, authRequests, issued, pendingLogin>>
  /\ UNCHANGED fetchOutcome
  /\ UNCHANGED exceptAuth

\* authApi.logout resolved: drop the token, then fetchAuthInfoOnce.
LogoutSucceeds ==
  /\ pendingLogout > 0
  /\ pendingLogout' = pendingLogout - 1
  /\ hasToken' = FALSE
  /\ FetchAuthInfoOnce(FALSE)
  /\ notified' = 0
  /\ UNCHANGED <<backendMultiUser, globalAuthInfo, refreshIntervalId, listeners, pendingLogin>>
  /\ UNCHANGED fetchOutcome
  /\ UNCHANGED exceptAuth

\* authApi.logout rejected: catch branch of logout.
LogoutFails ==
  /\ pendingLogout > 0
  /\ pendingLogout' = pendingLogout - 1
  /\ hasToken' = FALSE
  /\ globalAuthInfo' = NullInfo
  /\ notified' = listeners
  /\ lastReturned' = 0
  /\ UNCHANGED <<backendMultiUser, globalIsLoading, globalError, inFlight,
                 refreshIntervalId, listeners, authRequests, issued, pendingLogin>>
  /\ UNCHANGED fetchOutcome
  /\ UNCHANGED exceptAuth

AuthInit ==
  /\ backendMultiUser \in BOOLEAN
  /\ hasToken \in BOOLEAN
  /\ globalAuthInfo = NullInfo
  /\ globalIsLoading = TRUE
  /\ globalError = "null"
  /\ inFlight = 0
  /\ refreshIntervalId = FALSE
  /\ listeners = 0
  /\ authRequests = {}
  /\ issued = 0
  /\ pendingLogin = 0
  /\ pendingLogout = 0
  /\ lastReturned = 0
  /\ notified = 0
  /\ fetchOutcome = "none"

\* The same module state with the environment fixed, for the other specifications.
AuthIdle ==
  /\ backendMultiUser = FALSE
  /\ hasToken = FALSE
  /\ globalAuthInfo = NullInfo
  /\ globalIsLoading = TRUE
  /\ globalError = "null"
  /\ inFlight = 0
  /\ refreshIntervalId = FALSE
  /\ listeners = 0
  /\ authRequests = {}
  /\ issued = 0
  /\ pendingLogin = 0
  /\ pendingLogout = 0
  /\ lastReturned = 0
  /\ notified = 0
  /\ fetchOutcome = "none"

NextAuth ==
  \/ Mount
  \/ RefreshTimer
  \/ RefreshAuth
  \/ FetchSettle
  \/ LoginWithGoogle
  \/ LoginSucceeds
  \/ LoginFails
  \/ Logout
  \/ LogoutSucceeds
  \/ LogoutFails

-----------------------------------------------------------------------------
(* useBackendHealth *)

\* What a health check can end with: an OK response whose body says 'healthy'
\* or something else, a non-OK response, and the errors fetch can throw.
Outcomes == {"ok_healthy", "ok_other", "not_ok", "network", "timeout", "other", "unknown"}

\* The name and message (lower-cased, as the code reads them) of the thrown errors.
ErrorOf(outcome) ==
  CASE outcome = "network" -> [isError |-> TRUE, name |-> "typeerror", message |-> "failed to fetch"]
    [] outcome = "timeout" -> [isError |-> TRUE, name |-> "timeouterror", message |-> "signal timed out"]
    [] outcome = "other"   -> [isError |-> TRUE, name |-> "syntaxerror", message |-> "unexpected token"]
    [] OTHER               -> [isError |-> FALSE, name |-> "", message |-> ""]

\* The catch branch: classification of a thrown value.
ClassifyError(err) ==
  IF err.isError
    THEN IF err.message \in {"failed to fetch", "networkerror", "connection refused",
                             "connection failed", "net::err_connection_refused"}
            \/ err.name = "typeerror"
           THEN [status |-> "not_found", error |-> "Backend server not found"]
           ELSE IF err.name = "timeouterror" \/ err.message = "timeout"
                  THEN [status |-> "starting", error |-> "taking longer than expected"]
                  ELSE [status |-> "error", error |-> err.message]
    ELSE [status |-> "not_found", error |-> "Backend server not found"]

\* A check that reports healthy on any OK response, whatever the body says.
CheckResultOkIsHealthy(outcome) ==
  IF outcome \in {"ok_healthy", "ok_other"}
    THEN [isHealthy |-> TRUE,
          status |-> IF outcome = "ok_healthy" THEN "healthy" ELSE "starting",
          error |-> "null"]
    ELSE [isHealthy |-> FALSE, status |-> "starting", error |-> "not ready"]

\* The values checkHealth writes for an outcome (try and catch branches).
CheckResult(outcome) ==
  IF outcome \in {"ok_healthy", "ok_other"}
    THEN [isHealthy |-> (outcome = "ok_healthy"),
          status |-> IF outcome = "ok_healthy" THEN "healthy" ELSE "starting",
          error |-> "null"]
    ELSE IF outcome = "not_ok"
      THEN [isHealthy |-> FALSE, status |-> "starting", error |-> "not ready"]
      ELSE [isHealthy |-> FALSE,
            status |-> ClassifyError(ErrorOf(outcome)).status,
            error |-> ClassifyError(ErrorOf(outcome)).error]

\* checkHealth up to its await: a new request is in flight.
StartCheck ==
  /\ checksStarted < MaxChecks
  /\ checksStarted' = checksStarted + 1
  /\ checks' = checks \cup {checksStarted + 1}

\* The hook mounts; its effect starts the first check and the polling interval,
\* or, when disabled, only clears isChecking.
HealthMount ==
  /\ ~hMounted
  /\ checksStarted = 0
  /\ hMounted' = TRUE
  /\ \E en \in BOOLEAN :
       /\ hEnabled' = en
       /\ hTimer' = en
       /\ IF en THEN StartCheck /\ UNCHANGED isChecking
               ELSE isChecking' = FALSE /\ UNCHANGED <<checks, checksStarted>>
  /\ UNCHANGED <<isHealthy, status, healthError, lastCompleted>>
  /\ UNCHANGED exceptHealth

\* setInterval(checkHealth, interval) fires.
HealthPoll ==
  /\ hTimer
  /\ StartCheck
  /\ UNCHANGED <<hMounted, hEnabled, hTimer, isHealthy, isChecking, status, healthError,
                 lastCompleted>>
  /\ UNCHANGED exceptHealth

\* refetch() called by the component (BackendLoadingScreen's retry).
HealthRefetch ==
  /\ hMounted
  /\ hEnabled                 \* checkHealth returns at once when not enabled
  /\ StartCheck
  /\ UNCHANGED <<hMounted, hEnabled, hTimer, isHealthy, isChecking, status, healthError,
                 lastCompleted>>
  /\ UNCHANGED exceptHealth

\* The `enabled` prop changes: effect cleanup (clearInterval), then the effect again.
HealthSetEnabled ==
  /\ hMounted
  /\ hEnabled' = ~hEnabled
  /\ hTimer' = ~hEnabled
  /\ IF ~hEnabled THEN StartCheck /\ UNCHANGED isChecking
                  ELSE isChecking' = FALSE /\ UNCHANGED <<checks, checksStarted>>
  /\ UNCHANGED <<hMounted, isHealthy, status, healthError, lastCompleted>>
  /\ UNCHANGED exceptHealth

\* The component unmounts: effect cleanup clears the interval.
HealthUnmount ==
  /\ hMounted
  /\ hMounted' = FALSE
  /\ hTimer' = FALSE
  /\ UNCHANGED <<hEnabled, isHealthy, isChecking, status, healthError, checks,
                 checksStarted, lastCompleted>>
  /\ UNCHANGED exceptHealth

\* A check in flight completes, and its result is written only if no check
\* was started after it.
CheckSettleLatestOnly ==
  \E id \in checks, outcome \in Outcomes :
    /\ checks' = checks \ {id}
    /\ lastCompleted' = [id |-> id, outcome |-> outcome, enabled |-> hEnabled,
                         mounted |-> hMounted]
    /\ IF hMounted /\ id = checksStarted
         THEN /\ isHealthy' = CheckResult(outcome).isHealthy
              /\ status' = CheckResult(outcome).status
              /\ healthError' = CheckResult(outcome).error
              /\ isChecking' = FALSE
         ELSE UNCHANGED <<isHealthy, status, healthError, isChecking>>
    /\ UNCHANGED <<hMounted, hEnabled, hTimer, checksStarted>>
    /\ UNCHANGED exceptHealth

\* A check in flight completes: the setters of the try / catch / finally
\* branches. React drops state updates of a component that is no longer mounted.
CheckSettle ==
  \E id \in checks, outcome \in Outcomes :
    /\ checks' = checks \ {id}
    /\ lastCompleted' = [id |-> id, outcome |-> outcome, enabled |-> hEnabled,
                         mounted |-> hMounted]
    /\ IF hMounted
         THEN /\ isHealthy' = CheckResult(outcome).isHealthy
              /\ status' = CheckResult(outcome).status
              /\ healthError' = CheckResult(outcome).error
              /\ isChecking' = FALSE
         ELSE UNCHANGED <<isHealthy, status, healthError, isChecking>>
    /\ UNCHANGED <<hMounted, hEnabled, hTimer, checksStarted>>
    /\ UNCHANGED exceptHealth

HealthIdle ==
  /\ hMounted = FALSE
  /\ hEnabled = TRUE
  /\ hTimer = FALSE
  /\ isHealthy = FALSE
  /\ isChecking = TRUE
  /\ status = "error"
  /\ healthError = "null"
  /\ checks = {}
  /\ checksStarted = 0
  /\ lastCompleted = [id |-> 0, outcome |-> "none", enabled |-> TRUE, mounted |-> FALSE]

NextHealth ==
  \/ HealthMount
  \/ HealthPoll
  \/ HealthRefetch
  \/ HealthSetEnabled
  \/ HealthUnmount
  \/ CheckSettle

-----------------------------------------------------------------------------
(* The workspace graph as the backend returns it *)

Range(f) == {f[i] : i \in DOMAIN f}

BNode(id, nodeType, isLazy, documentColumn, nodeName) ==
  [id |-> id, nodeType |-> nodeType, isLazy |-> isLazy,
   documentColumn |-> documentColumn, nodeName |-> nodeName]

BEdge(source, target) == [source |-> source, target |-> target]

GEmpty    == [nodes |-> <<>>, edges |-> <<>>]
GOne      == [nodes |-> <<BNode("n1", "DataFrame", FALSE, "", "A")>>, edges |-> <<>>]
GOneDoc   == [nodes |-> <<BNode("n1", "DocDataFrame", FALSE, "text", "A")>>, edges |-> <<>>]
GOneLazy  == [nodes |-> <<BNode("n1", "LazyFrame", TRUE, "", "A")>>, edges |-> <<>>]
GOneB     == [nodes |-> <<BNode("n1", "DataFrame", FALSE, "", "B")>>, edges |-> <<>>]
GOneAnon  == [nodes |-> <<BNode("n1", "", FALSE, "", "")>>, edges |-> <<>>]
GTwo      == [nodes |-> <<BNode("n1", "DataFrame", FALSE, "", "A"),
                          BNode("n2", "DataFrame", FALSE, "", "B")>>, edges |-> <<>>]
GTwoEdge  == [nodes |-> <<BNode("n1", "DataFrame", FALSE, "", "A"),
                          BNode("n2", "DataFrame", FALSE, "", "B")>>,
              edges |-> <<BEdge("n1", "n2")>>]
GThree    == [nodes |-> <<BNode("n1", "DocDataFrame", FALSE, "text", "A"),
                          BNode("n2", "DataFrame", FALSE, "", "B"),
                          BNode("n3", "LazyFrame", TRUE, "", "C")>>,
              edges |-> <<BEdge("n1", "n2"), BEdge("n1", "n3")>>]

Graphs == {GEmpty, GOne, GOneDoc, GOneLazy, GOneB, GOneAnon, GTwo, GTwoEdge, GThree}

GraphNodeIds(g) == {g.nodes[i].id : i \in DOMAIN g.nodes}

-----------------------------------------------------------------------------
(* Selection: useWorkspace's selection operations (their code is not part of *)
(* the sources; toggle is add-if-absent / remove-if-present) and the two     *)
(* components that call them                                                 *)

Includes(seq, x) == \E i \in DOMAIN seq : seq[i] = x

Without(seq, x) == SelectSeq(seq, LAMBDA y : y # x)

ToggleNodeSelection(sel, id) ==
  IF Includes(sel, id) THEN Without(sel, id) ELSE Append(sel, id)

SelectNode(sel, id) == <<id>>

ClearSelection(sel) == <<>>

ApplyCall(sel, call) ==
  CASE call.op = "toggle" -> ToggleNodeSelection(sel, call.id)
    [] call.op = "select" -> SelectNode(sel, call.id)
    [] call.op = "clear"  -> ClearSelection(sel)

RECURSIVE ApplyCalls(_, _)
ApplyCalls(sel, calls) ==
  IF calls = <<>> THEN sel
  ELSE ApplyCalls(ApplyCall(sel, Head(calls)), Tail(calls))

\* A sidebar that ticks only the primary (first) selected node.
SidebarCheckedPrimaryOnly(sel, id) == sel # <<>> /\ sel[1] = id

\* Sidebar: const checked = (selectedNodeIds || []).includes(n.id)
SidebarChecked(sel, id) == Includes(sel, id)

\* The checkboxes the sidebar renders for a graph and a selection.
RenderSidebar(g, sel) == [id \in GraphNodeIds(g) |-> SidebarChecked(sel, id)]

\* Sidebar: onChange={() => toggleNodeSelection(n.id)}
SidebarOnChange(id) == <<[op |-> "toggle", id |-> id]>>

\* A click handler that toggles only with Cmd/Ctrl held and otherwise selects
\* the clicked node alone.
OnNodeClickModifierToggles(id, modifier) ==
  IF modifier THEN <<[op |-> "toggle", id |-> id]>> ELSE <<[op |-> "select", id |-> id]>>

\* WorkspaceGraphView.onNodeClick: toggle, whatever the modifier keys.
OnNodeClick(id, modifier) ==
  IF id # "" THEN <<[op |-> "toggle", id |-> id]>> ELSE <<>>

\* The user changes the sidebar checkbox of a node.
SidebarCheckboxChange ==
  \E id \in GraphNodeIds(workspaceGraph) :
    /\ selCalls' = SidebarOnChange(id)
    /\ selectedNodeIds' = ApplyCalls(selectedNodeIds, selCalls')
    /\ sidebarChecked' = RenderSidebar(workspaceGraph, selectedNodeIds')
    /\ lastEvent' = [kind |-> "checkbox", id |-> id, modifier |-> FALSE]
    /\ clickHist' = <<>>
    /\ UNCHANGED <<workspaceGraph, currentWorkspaceId>>
    /\ UNCHANGED exceptSelection

\* The user clicks a node of the graph, with or without Cmd/Ctrl.
GraphNodeClick ==
  \E id \in GraphNodeIds(workspaceGraph), modifier \in BOOLEAN :
    /\ selCalls' = OnNodeClick(id, modifier)
    /\ selectedNodeIds' = ApplyCalls(selectedNodeIds, selCalls')
    /\ sidebarChecked' = RenderSidebar(workspaceGraph, selectedNodeIds')
    /\ lastEvent' = [kind |-> "click", id |-> id, modifier |-> modifier]
    /\ clickHist' = (IF Len(clickHist) = 2 THEN Tail(clickHist) ELSE clickHist)
                      \o <<[id |-> id, before |-> Range(selectedNodeIds)]>>
    /\ UNCHANGED <<workspaceGraph, currentWorkspaceId>>
    /\ UNCHANGED exceptSelection

\* The graph view's "Deselect all" control (disabled while nothing is selected).
DeselectAll ==
  /\ selectedNodeIds # <<>>
  /\ selCalls' = <<[op |-> "clear", id |-> ""]>>
  /\ selectedNodeIds' = ApplyCalls(selectedNodeIds, selCalls')
  /\ sidebarChecked' = RenderSidebar(workspaceGraph, selectedNodeIds')
  /\ lastEvent' = [kind |-> "deselect", id |-> "", modifier |-> FALSE]
  /\ clickHist' = <<>>
  /\ UNCHANGED <<workspaceGraph, currentWorkspaceId>>
  /\ UNCHANGED exceptSelection

WorkspaceIdle ==
  /\ workspaceGraph = GEmpty
  /\ selectedNodeIds = <<>>
  /\ currentWorkspaceId = "null"

SelectionIdle ==
  /\ sidebarChecked = RenderSidebar(workspaceGraph, selectedNodeIds)
  /\ selCalls = <<>>
  /\ lastEvent = [kind |-> "none", id |-> "", modifier |-> FALSE]
  /\ clickHist = <<>>

\* A workspace with nodes is loaded and nothing is selected yet.
SelectionInit ==
  /\ workspaceGraph \in {GTwoEdge, GThree}
  /\ selectedNodeIds = <<>>
  /\ currentWorkspaceId = "ws"
  /\ SelectionIdle

NextSelection ==
  \/ SidebarCheckboxChange
  \/ GraphNodeClick
  \/ DeselectAll

-----------------------------------------------------------------------------
(* WorkspaceGraphView: signatures and the debounced update effect.          *)
(* A text is a sequence of tokens; ids, type names, column names and node   *)
(* names are single tokens, '' is the empty text.                           *)

T(str) == IF str = "" THEN <<>> ELSE <<str>>

RECURSIVE Join(_, _)
Join(texts, sep) ==
  IF texts = <<>> THEN <<>>
  ELSE IF Len(texts) = 1 THEN texts[1]
  ELSE texts[1] \o <<sep>> \o Join(Tail(texts), sep)

NodeLabel(index) == <<"Node 1", "Node 2", "Node 3">>[index]

\* initialNodes: the React Flow node built from a backend node.
ToDisplayNode(gn, index) ==
  [id |-> gn.id,
   data_type |-> IF gn.nodeType # "" THEN gn.nodeType ELSE "unknown",
   is_lazy |-> gn.isLazy,
   document_column |-> gn.documentColumn,
   name |-> IF gn.nodeName # "" THEN gn.nodeName ELSE NodeLabel(index)]

InitialNodes(g) == [i \in DOMAIN g.nodes |-> ToDisplayNode(g.nodes[i], i)]

InitialEdges(g) ==
  [i \in DOMAIN g.edges |-> [source |-> g.edges[i].source, target |-> g.edges[i].target]]

CurrentNodeIds(ns) == Join([i \in DOMAIN ns |-> <<ns[i].id>>], ",")

CurrentEdgeIds(es) == Join([i \in DOMAIN es |-> <<es[i].source, "-", es[i].target>>], ",")

NewNodeIds(g) == Join([i \in DOMAIN g.nodes |-> <<g.nodes[i].id>>], ",")

NewEdgeIds(g) ==
  Join([i \in DOMAIN g.edges |-> <<g.edges[i].source, "-", g.edges[i].target>>], ",")

CurrentNodesSignature(ns) ==
  Join([i \in DOMAIN ns |->
          <<ns[i].id, ":">> \o T(ns[i].data_type) \o <<":">>
            \o <<IF ns[i].is_lazy THEN "1" ELSE "0">> \o <<":">>
            \o T(ns[i].document_column) \o <<":">> \o T(ns[i].name)], ",")

NewNodesSignature(g) ==
  Join([i \in DOMAIN g.nodes |->
          <<g.nodes[i].id, ":">>
            \o T(IF g.nodes[i].nodeType # "" THEN g.nodes[i].nodeType ELSE "unknown")
            \o <<":">> \o <<IF g.nodes[i].isLazy THEN "1" ELSE "0">> \o <<":">>
            \o T(g.nodes[i].documentColumn) \o <<":">> \o T(g.nodes[i].nodeName)], ",")

\* The effect's dependency array.
EffectDeps(g, ns) ==
  <<NewNodeIds(g), NewEdgeIds(g), NewNodesSignature(g), CurrentNodesSignature(ns)>>

\* The effect's early return: "No meaningful change".
NoMeaningfulChange(g, ns, es) ==
  /\ NewNodeIds(g) = CurrentNodeIds(ns)
  /\ NewEdgeIds(g) = CurrentEdgeIds(es)
  /\ NewNodesSignature(g) = CurrentNodesSignature(ns)

\* The same comparison on the lists themselves: node ids, source-target pairs
\* and (id, data type, laziness, document column, name) per node.
SameLists(g, ns, es) ==
  /\ [i \in DOMAIN g.nodes |-> g.nodes[i].id] = [i \in DOMAIN ns |-> ns[i].id]
  /\ [i \in DOMAIN g.edges |-> <<g.edges[i].source, g.edges[i].target>>]
       = [i \in DOMAIN es |-> <<es[i].source, es[i].target>>]
  /\ [i \in DOMAIN g.nodes |->
        <<g.nodes[i].id,
          IF g.nodes[i].nodeType # "" THEN g.nodes[i].nodeType ELSE "unknown",
          g.nodes[i].isLazy, g.nodes[i].documentColumn, g.nodes[i].nodeName>>]
       = [i \in DOMAIN ns |->
            <<ns[i].id, ns[i].data_type, ns[i].is_lazy, ns[i].document_column, ns[i].name>>]

\* An effect that never cancels the frame it requested before.
CancelNothing(queue, ref) == queue

\* if (updateRafRef.current) cancelAnimationFrame(updateRafRef.current)
CancelPending(queue, ref) ==
  IF ref # 0 THEN {cb \in queue : cb.id # ref} ELSE queue

NoEffect == [ran |-> FALSE, equal |-> FALSE, scheduled |-> FALSE]

\* One pass of React over the update effect after a render with backend graph
\* g, displayed nodes ns and edges es, and `queue` the callbacks still pending:
\* nothing when the dependencies are unchanged; otherwise the previous run's
\* cleanup, then the effect body.
UpdateEffect(g, ns, es, queue) ==
  IF EffectDeps(g, ns) = effectDeps
    THEN /\ rafQueue' = queue
         /\ lastEffect' = NoEffect
         /\ UNCHANGED <<updateRafRef, rafIssued, effectDeps, hasCleanup>>
    ELSE LET cleaned == IF hasCleanup THEN CancelPending(queue, updateRafRef) ELSE queue
         IN /\ effectDeps' = EffectDeps(g, ns)
            /\ IF NoMeaningfulChange(g, ns, es)
                 THEN /\ rafQueue' = cleaned
                      /\ hasCleanup' = FALSE
                      /\ lastEffect' = [ran |-> TRUE, equal |-> SameLists(g, ns, es),
                                        scheduled |-> FALSE]
                      /\ UNCHANGED <<updateRafRef, rafIssued>>
                 ELSE /\ rafIssued < MaxRaf
                      /\ rafIssued' = rafIssued + 1
                      /\ updateRafRef' = rafIssued + 1
                      /\ rafQueue' = CancelPending(cleaned, updateRafRef)
                                       \cup {[id |-> rafIssued + 1,
                                              nodes |-> InitialNodes(g),
                                              edges |-> InitialEdges(g)]}
                      /\ hasCleanup' = TRUE
                      /\ lastEffect' = [ran |-> TRUE, equal |-> SameLists(g, ns, es),
                                        scheduled |-> TRUE]

\* The graph view mounts: first render, the effect runs for the first time.
GraphViewMount ==
  /\ effectDeps = <<>>
  /\ UpdateEffect(workspaceGraph, nodes, edges, rafQueue)
  /\ UNCHANGED <<nodes, edges, appliedInFrame, burst, burstAtFrame>>
  /\ UNCHANGED <<wsVars, selVars>>
  /\ UNCHANGED exceptGraphView

\* The workspace-graph query delivers another graph (a node added, deleted,
\* converted or renamed, an edge added): re-render, then the effect.
GraphChange ==
  \E g \in Graphs \ {workspaceGraph} :
    /\ effectDeps # <<>>
    /\ burst < MaxBurst
    /\ workspaceGraph' = g
    /\ burst' = burst + 1
    /\ UpdateEffect(g, nodes, edges, rafQueue)
    /\ sidebarChecked' = RenderSidebar(g, selectedNodeIds)
    /\ UNCHANGED <<nodes, edges, appliedInFrame, burstAtFrame>>
    /\ UNCHANGED <<selectedNodeIds, currentWorkspaceId, selCalls, lastEvent, clickHist>>
    /\ UNCHANGED exceptGraphView

\* The callback requested last among those pending.
LastCallback(queue) == CHOOSE cb \in queue : \A other \in queue : other.id <= cb.id

\* The browser's next animation frame: every pending callback runs, in the
\* order requested (setNodes / setEdges), then the re-render and the effect.
AnimationFrame ==
  /\ effectDeps # <<>>
  /\ rafQueue # {} \/ burst > 0
  /\ appliedInFrame' = Cardinality(rafQueue)
  /\ burstAtFrame' = burst
  /\ burst' = 0
  /\ nodes' = IF rafQueue = {} THEN nodes ELSE LastCallback(rafQueue).nodes
  /\ edges' = IF rafQueue = {} THEN edges ELSE LastCallback(rafQueue).edges
  /\ UpdateEffect(workspaceGraph, nodes', edges', {})
  /\ UNCHANGED <<wsVars, selVars>>
  /\ UNCHANGED exceptGraphView

GraphViewIdle ==
  /\ nodes = <<>>
  /\ edges = <<>>
  /\ rafQueue = {}
  /\ updateRafRef = 0
  /\ rafIssued = 0
  /\ effectDeps = <<>>
  /\ hasCleanup = FALSE
  /\ lastEffect = NoEffect
  /\ appliedInFrame = 0
  /\ burst = 0
  /\ burstAtFrame = 0

\* The graph view is about to mount on a workspace, empty or already holding nodes.
GraphViewInit ==
  /\ workspaceGraph \in {GEmpty, GTwoEdge}
  /\ selectedNodeIds = <<>>
  /\ currentWorkspaceId = "ws"
  /\ SelectionIdle
  /\ GraphViewIdle

NextGraphView ==
  \/ GraphViewMount
  \/ GraphChange
  \/ AnimationFrame

-----------------------------------------------------------------------------
(* WorkspaceGraphView: node mutations and query-cache invalidation *)

MutationKinds ==
  {"convertToDocDataFrame", "convertToDataFrame", "convertToDocLazyFrame",
   "convertToLazyFrame", "resetDocumentColumn"}

\* Ids of the nodes on display, the ones a context menu can act on.
DisplayedNodeIds == {nodes[i].id : i \in DOMAIN nodes}

\* The query keys a handler invalidates: node data and node schema of the
\* node, and for resetDocumentColumn also the workspace graph.
InvalidatedKeys(kind, ws, nodeId) ==
  {[key |-> "nodeData", ws |-> ws, node |-> nodeId],
   [key |-> "nodeSchema", ws |-> ws, node |-> nodeId]}
    \cup (IF kind = "resetDocumentColumn"
            THEN {[key |-> "workspaceGraph", ws |-> ws, node |-> ""]}
            ELSE {})

\* convertTo* / resetDocumentColumn of useWorkspace: issues the REST call for
\* the current workspace and returns without waiting for it.
StartMutation(pending, m, ws) ==
  IF ws # "null" THEN pending \cup {m} ELSE pending

NoInvalidation == [mut |-> 0, ws |-> "null", node |-> "", keys |-> {}, settled |-> FALSE]

\* handleConvertTo... / handleResetDocument: call the mutation, then, in the
\* same synchronous run, invalidate the node's queries if a workspace is
\* current. An invalidated query that is being observed refetches.
HandleNodeMutation ==
  \E kind \in MutationKinds, nodeId \in DisplayedNodeIds :
    /\ mutIssued < MaxMutations
    /\ LET m == [id |-> mutIssued + 1, node |-> nodeId, applied |-> FALSE]
           pendingAfterCall == StartMutation(mutPending, m, currentWorkspaceId)
       IN /\ mutIssued' = mutIssued + 1
          /\ mutPending' = pendingAfterCall
          /\ IF currentWorkspaceId # "null"
               THEN /\ lastInvalidation' =
                         [mut |-> m.id, ws |-> currentWorkspaceId, node |-> nodeId,
                          keys |-> InvalidatedKeys(kind, currentWorkspaceId, nodeId),
                          settled |-> \A p \in pendingAfterCall : p.id # m.id]
                    /\ refetchPending' = refetchPending \cup {[node |-> nodeId, mut |-> m.id]}
               ELSE /\ lastInvalidation' =
                         [mut |-> m.id, ws |-> currentWorkspaceId, node |-> nodeId,
                          keys |-> {}, settled |-> FALSE]
                    /\ UNCHANGED refetchPending
    /\ UNCHANGED <<backendVer, cacheVer, preMutationReads>>
    /\ UNCHANGED <<wsVars, gvVars>>
    /\ UNCHANGED exceptMutation

\* The backend applies a mutation it has received.
BackendApplies ==
  \E m \in mutPending :
    /\ ~m.applied
    /\ mutPending' = (mutPending \ {m}) \cup {[m EXCEPT !.applied = TRUE]}
    /\ backendVer' = [backendVer EXCEPT ![m.node] = @ + 1]
    /\ UNCHANGED <<mutIssued, cacheVer, refetchPending, lastInvalidation, preMutationReads>>
    /\ UNCHANGED <<wsVars, gvVars>>
    /\ UNCHANGED exceptMutation

\* The mutation call settles: the response of an applied mutation arrives, or
\* the call fails without having been applied.
MutationSettles ==
  \E m \in mutPending :
    /\ mutPending' = mutPending \ {m}
    /\ UNCHANGED <<mutIssued, backendVer, cacheVer, refetchPending, lastInvalidation,
                   preMutationReads>>
    /\ UNCHANGED <<wsVars, gvVars>>
    /\ UNCHANGED exceptMutation

\* The backend answers a refetch with the node's data as it is now.
RefetchAnswered ==
  \E q \in refetchPending :
    /\ refetchPending' = refetchPending \ {q}
    /\ cacheVer' = [cacheVer EXCEPT ![q.node] = backendVer[q.node]]
    /\ preMutationReads' =
         IF \E m \in mutPending : m.id = q.mut /\ ~m.applied
           THEN preMutationReads \cup {q.mut}
           ELSE preMutationReads
    /\ UNCHANGED <<mutPending, mutIssued, backendVer, lastInvalidation>>
    /\ UNCHANGED <<wsVars, gvVars>>
    /\ UNCHANGED exceptMutation

\* The workspace is unloaded; the nodes stay on display until the next
\* animation frame applies the empty graph.
WorkspaceUnload ==
  /\ currentWorkspaceId # "null"
  /\ currentWorkspaceId' = "null"
  /\ workspaceGraph' = GEmpty
  /\ UNCHANGED selectedNodeIds
  /\ UNCHANGED <<gvVars, mutVars>>
  /\ UNCHANGED exceptMutation

MutationIdle ==
  /\ mutPending = {}
  /\ mutIssued = 0
  /\ backendVer = [n \in GraphNodeIds(GThree) |-> 0]
  /\ cacheVer = [n \in GraphNodeIds(GThree) |-> 0]
  /\ refetchPending = {}
  /\ lastInvalidation = NoInvalidation
  /\ preMutationReads = {}

\* The graph view shows a loaded workspace.
MutationInit ==
  /\ workspaceGraph \in {GOneDoc, GTwoEdge}
  /\ selectedNodeIds = <<>>
  /\ currentWorkspaceId = "ws"
  /\ nodes = InitialNodes(workspaceGraph)
  /\ edges = InitialEdges(workspaceGraph)
  /\ rafQueue = {}
  /\ updateRafRef = 0
  /\ rafIssued = 0
  /\ effectDeps = EffectDeps(workspaceGraph, nodes)
  /\ hasCleanup = FALSE
  /\ lastEffect = NoEffect
  /\ appliedInFrame = 0
  /\ burst = 0
  /\ burstAtFrame = 0
  /\ SelectionIdle
  /\ MutationIdle

NextMutation ==
  \/ HandleNodeMutation
  \/ BackendApplies
  \/ MutationSettles
  \/ RefetchAnswered
  \/ WorkspaceUnload

-----------------------------------------------------------------------------
(* FilterTab *)

\* Columns of the selected node, and the values a user may type ('' is empty).
AvailableColumns == <<"text">>
FilterOperators == {"eq", "is_null"}
FilterValues == {"", "v"}

\* useState initial value of conditions.
InitialConditions == <<[column |-> "", operator |-> "eq", value |-> ""]>>

\* The form is rendered only for a selected node whose columns are known.
SelectedNodeId == IF selectedNodeIds = <<>> THEN "null" ELSE selectedNodeIds[1]

FormRendered == SelectedNodeId # "null" /\ Len(AvailableColumns) > 0

\* disabled={isFiltering || isLoading.operations}
ApplyDisabled == isFiltering \/ opsLoading

\* A validation that forgets the column.
ConditionsIncompleteValueOnly(conds) ==
  \E i \in DOMAIN conds : conds[i].operator # "is_null" /\ conds[i].value = ""

\* conditions.some(c => !c.column || (c.operator !== 'is_null' && !c.value))
ConditionsIncomplete(conds) ==
  \E i \in DOMAIN conds :
    conds[i].column = "" \/ (conds[i].operator # "is_null" /\ conds[i].value = "")

HasEmptyColumn(conds) == \E i \in DOMAIN conds : conds[i].column = ""

\* The request's conditions: is_null carries no value.
SerializedConditions(conds) ==
  [i \in DOMAIN conds |->
     [column |-> conds[i].column, operator |-> conds[i].operator,
      value |-> IF conds[i].operator = "is_null" THEN "null" ELSE conds[i].value]]

HandleAddCondition ==
  /\ FormRendered
  /\ Len(conditions) < MaxConditions
  /\ conditions' = Append(conditions,
                          [column |-> IF Len(AvailableColumns) > 0
                                        THEN AvailableColumns[1] ELSE "",
                           operator |-> "eq", value |-> ""])
  /\ UNCHANGED <<isFiltering, opsLoading, filterSent, filterAlert, lastApply>>
  /\ UNCHANGED exceptFilter

HandleRemoveCondition ==
  \E i \in DOMAIN conditions :
    /\ FormRendered
    /\ conditions' = IF Len(conditions) > 1
                       THEN [j \in 1..(Len(conditions) - 1) |->
                               IF j < i THEN conditions[j] ELSE conditions[j + 1]]
                       ELSE conditions
    /\ UNCHANGED <<isFiltering, opsLoading, filterSent, filterAlert, lastApply>>
    /\ UNCHANGED exceptFilter

\* handleConditionChange(id, 'column', value): a known column also resets the
\* operator and the value; the placeholder option only clears the column.
ChangeColumn ==
  \E i \in DOMAIN conditions, col \in Range(AvailableColumns) \cup {""} :
    /\ FormRendered
    /\ conditions' =
         [conditions EXCEPT ![i] =
            IF col \in Range(AvailableColumns)
              THEN [column |-> col, operator |-> "eq", value |-> ""]
              ELSE [@ EXCEPT !.column = col]]
    /\ UNCHANGED <<isFiltering, opsLoading, filterSent, filterAlert, lastApply>>
    /\ UNCHANGED exceptFilter

\* handleConditionChange(id, 'operator', value); the select is disabled
\* while the condition has no column.
ChangeOperator ==
  \E i \in DOMAIN conditions, op \in FilterOperators :
    /\ FormRendered
    /\ conditions[i].column # ""
    /\ conditions' = [conditions EXCEPT ![i].operator = op]
    /\ UNCHANGED <<isFiltering, opsLoading, filterSent, filterAlert, lastApply>>
    /\ UNCHANGED exceptFilter

\* handleConditionChange(id, 'value', value)
ChangeValue ==
  \E i \in DOMAIN conditions, v \in FilterValues :
    /\ FormRendered
    /\ conditions' = [conditions EXCEPT ![i].value = v]
    /\ UNCHANGED <<isFiltering, opsLoading, filterSent, filterAlert, lastApply>>
    /\ UNCHANGED exceptFilter

\* handleApplyFilter up to the await, run by a click on the enabled button.
HandleApplyFilter ==
  /\ FormRendered
  /\ ~ApplyDisabled
  /\ IF SelectedNodeId = "null"
       THEN /\ filterAlert' = "Please select a node first"
            /\ lastApply' = [clicked |-> TRUE, emptyColumn |-> HasEmptyColumn(conditions),
                             sent |-> FALSE]
            /\ UNCHANGED <<isFiltering, filterSent>>
       ELSE IF ConditionsIncomplete(conditions)
         THEN /\ filterAlert' = "Please fill in all filter conditions"
              /\ lastApply' = [clicked |-> TRUE, emptyColumn |-> HasEmptyColumn(conditions),
                               sent |-> FALSE]
              /\ UNCHANGED <<isFiltering, filterSent>>
         ELSE /\ isFiltering' = TRUE
              /\ filterSent' = SerializedConditions(conditions)
              /\ filterAlert' = "none"
              /\ lastApply' = [clicked |-> TRUE, emptyColumn |-> HasEmptyColumn(conditions),
                               sent |-> TRUE]
  /\ UNCHANGED <<conditions, opsLoading>>
  /\ UNCHANGED exceptFilter

\* filterNode settles: catch raises the alert, finally clears isFiltering.
FilterSettles ==
  \E ok \in BOOLEAN :
    /\ isFiltering
    /\ isFiltering' = FALSE
    /\ filterAlert' = IF ok THEN filterAlert ELSE "Error applying filter"
    /\ UNCHANGED <<conditions, opsLoading, filterSent, lastApply>>
    /\ UNCHANGED exceptFilter

\* Another workspace operation starts or ends.
OperationsLoading ==
  /\ opsLoading' = ~opsLoading
  /\ UNCHANGED <<conditions, isFiltering, filterSent, filterAlert, lastApply>>
  /\ UNCHANGED exceptFilter

FilterIdle ==
  /\ conditions = InitialConditions
  /\ isFiltering = FALSE
  /\ opsLoading = FALSE
  /\ filterSent = <<>>
  /\ filterAlert = "none"
  /\ lastApply = [clicked |-> FALSE, emptyColumn |-> FALSE, sent |-> FALSE]

\* The Filter tab opens on a workspace with one node selected.
FilterInit ==
  /\ workspaceGraph = GTwoEdge
  /\ selectedNodeIds = <<"n1">>
  /\ currentWorkspaceId = "ws"
  /\ SelectionIdle
  /\ FilterIdle

NextFilter ==
  \/ HandleAddCondition
  \/ HandleRemoveCondition
  \/ ChangeColumn
  \/ ChangeOperator
  \/ ChangeValue
  \/ HandleApplyFilter
  \/ FilterSettles
  \/ OperationsLoading

-----------------------------------------------------------------------------
(* Backend requests issued from the tabs and where their failures go.       *)
(* A surface is "alert" (alert dialog), "inline" (message rendered in the   *)
(* tab) or "console" (console.error only).                                  *)

\* handleApplyFilter, catch
FilterTabSurface(kind) == "alert"

\* handleSearch and the detail fetch, catch
ConcordanceTabSurface(kind) == "alert"

\* the frequency analysis, catch
TimelineTabSurface(kind) == "alert"

\* handleAnalyze sets results to {success: false, message}, rendered in the
\* tab; handleFillDefaultStopWords only logs.
TokenFrequencyTabSurface(kind) ==
  IF kind = "defaultStopWords" THEN "console" ELSE "inline"

\* handleRun, catch: setError
TopicModelingTabSurface(kind) == "inline"

\* handleExport, catch
ExportTabSurface(kind) == "alert"

\* handleConfirmedAdd and the workspace creation before adding a file only
\* log; importing through the file input alerts, importing by drag and drop
\* only logs.
DataLoaderTabSurface(kind) ==
  IF kind = "workspaceImport" THEN "alert" ELSE "console"

RequestKinds ==
  {"applyFilter", "concordanceSearch", "concordanceDetail", "timelineAnalysis",
   "tokenFrequency", "defaultStopWords", "topicModeling", "export",
   "workspaceCreate", "workspaceImport", "workspaceImportDrop", "fileAdd"}

ErrorSurface(kind) ==
  CASE kind = "applyFilter" -> FilterTabSurface(kind)
    [] kind \in {"concordanceSearch", "concordanceDetail"} -> ConcordanceTabSurface(kind)
    [] kind = "timelineAnalysis" -> TimelineTabSurface(kind)
    [] kind \in {"tokenFrequency", "defaultStopWords"} -> TokenFrequencyTabSurface(kind)
    [] kind = "topicModeling" -> TopicModelingTabSurface(kind)
    [] kind = "export" -> ExportTabSurface(kind)
    [] OTHER -> DataLoaderTabSurface(kind)

NoFailure == [kind |-> "none", surface |-> "none"]

\* The user's action (a click, a file chosen or dropped) runs the handler,
\* which issues its one request and awaits it.
StartRequest ==
  \E kind \in RequestKinds :
    /\ userActions < MaxUserActions
    /\ \A r \in reqPending : r.kind # kind
    /\ userActions' = userActions + 1
    /\ reqIssued' = reqIssued + 1
    /\ reqPending' = reqPending \cup {[id |-> reqIssued + 1, kind |-> kind]}
    /\ UNCHANGED <<lastFailure, alertShown, inlineShown, consoleLogged>>
    /\ UNCHANGED exceptRequests

\* The awaited request resolves: the handler shows its result.
RequestSucceeds ==
  \E r \in reqPending :
    /\ reqPending' = reqPending \ {r}
    /\ inlineShown' = IF inlineShown = r.kind THEN "none" ELSE inlineShown
    /\ UNCHANGED <<reqIssued, userActions, lastFailure, alertShown, consoleLogged>>
    /\ UNCHANGED exceptRequests

\* The awaited request rejects: the handler's catch block runs; no handler
\* issues the request again.
RequestFails ==
  \E r \in reqPending :
    /\ reqPending' = reqPending \ {r}
    /\ lastFailure' = [kind |-> r.kind, surface |-> ErrorSurface(r.kind)]
    /\ alertShown' = IF ErrorSurface(r.kind) = "alert" THEN r.kind ELSE alertShown
    /\ inlineShown' = IF ErrorSurface(r.kind) = "inline" THEN r.kind ELSE inlineShown
    /\ consoleLogged' = r.kind
    /\ UNCHANGED <<reqIssued, userActions>>
    /\ UNCHANGED exceptRequests

RequestsIdle ==
  /\ reqPending = {}
  /\ reqIssued = 0
  /\ userActions = 0
  /\ lastFailure = NoFailure
  /\ alertShown = "none"
  /\ inlineShown = "none"
  /\ consoleLogged = "none"

NextRequests ==
  \/ StartRequest
  \/ RequestSucceeds
  \/ RequestFails

-----------------------------------------------------------------------------
(* Token Frequency and Topic Modeling tabs: comparing the selected nodes *)

CompareTabs == {"tokenFrequency", "topicModeling"}

\* The text columns a user can pick for a node ('' is the placeholder).
NodeColumns(gn) == {"text"}

\* selectedNodes of useWorkspace: the selected nodes in selection order.
SelectedNodes(g, sel) ==
  [i \in DOMAIN sel |-> CHOOSE k \in Range(g.nodes) : k.id = sel[i]]

IsDocType(gn) == gn.nodeType \in {"DocDataFrame", "DocLazyFrame"}

\* The column preselected for a node new to the selection: Token Frequency
\* takes the document column of Doc nodes only, Topic Modeling of any node.
DefaultColumn(tab, gn) ==
  IF tab = "tokenFrequency"
    THEN IF IsDocType(gn) /\ gn.documentColumn # "" /\ gn.documentColumn \in NodeColumns(gn)
           THEN gn.documentColumn ELSE ""
    ELSE IF gn.documentColumn # "" /\ gn.documentColumn \in NodeColumns(gn)
           THEN gn.documentColumn ELSE ""

\* The effect that follows selectedNodes: keep the choice of nodes still
\* selected, add a default for the new ones.
SyncSelections(tab, prev, selNodes) ==
  [i \in DOMAIN selNodes |->
     IF \E j \in DOMAIN prev : prev[j].nodeId = selNodes[i].id
       THEN prev[CHOOSE j \in DOMAIN prev :
                   /\ prev[j].nodeId = selNodes[i].id
                   /\ \A k \in DOMAIN prev : prev[k].nodeId = selNodes[i].id => j <= k]
       ELSE [nodeId |-> selNodes[i].id, column |-> DefaultColumn(tab, selNodes[i])]]

\* selectedNodes.slice(0, 2).map(node => node.id)
FirstTwo(sel) == SubSeq(sel, 1, IF Len(sel) < 2 THEN Len(sel) ELSE 2)

\* nodeColumnSelections.find(s => s.nodeId === id)?.column
ColumnOf(sels, id) ==
  IF \E j \in DOMAIN sels : sels[j].nodeId = id
    THEN sels[CHOOSE j \in DOMAIN sels :
                /\ sels[j].nodeId = id
                /\ \A k \in DOMAIN sels : sels[k].nodeId = id => j <= k].column
    ELSE ""

\* Token Frequency: the Calculate button.
AnalyzeDisabled ==
  \/ Len(selectedNodeIds) = 0
  \/ cmpBusy
  \/ currentWorkspaceId = "null"
  \/ \E j \in DOMAIN nodeColumnSelections : nodeColumnSelections[j].column = ""

\* Topic Modeling: the Run button.
RunDisabled == cmpBusy \/ Len(selectedNodeIds) = 0

\* node_columns of a request, as the set of its (node id, column) entries.
TokenFrequencyNodeColumns(sels) ==
  {<<sels[j].nodeId, sels[j].column>> : j \in DOMAIN sels}

TopicModelingNodeColumns(sels) ==
  {<<sels[j].nodeId, sels[j].column>> : j \in {k \in DOMAIN sels : sels[k].column # ""}}

NoRequest == [tab |-> "none", node_ids |-> <<>>, node_columns |-> {}]

\* A node is ticked or unticked in the sidebar while an analysis tab is on
\* display: the selection changes and the tab's effect follows it.
CompareToggleNode ==
  \E id \in GraphNodeIds(workspaceGraph) :
    /\ cmpTab \in CompareTabs
    /\ selectedNodeIds' = ApplyCalls(selectedNodeIds, SidebarOnChange(id))
    /\ selCalls' = SidebarOnChange(id)
    /\ lastEvent' = [kind |-> "checkbox", id |-> id, modifier |-> FALSE]
    /\ clickHist' = <<>>
    /\ sidebarChecked' = RenderSidebar(workspaceGraph, selectedNodeIds')
    /\ nodeColumnSelections' =
         SyncSelections(cmpTab, nodeColumnSelections,
                        SelectedNodes(workspaceGraph, selectedNodeIds'))
    /\ UNCHANGED <<workspaceGraph, currentWorkspaceId>>
    /\ UNCHANGED <<cmpTab, cmpBusy, cmpPending, cmpAlert>>
    /\ UNCHANGED exceptCompare

\* handleColumnChange, from the column select of any selected node.
HandleColumnChange ==
  \E j \in DOMAIN nodeColumnSelections :
    \E col \in NodeColumns(SelectedNodes(workspaceGraph, selectedNodeIds)[j]) \cup {""} :
      /\ cmpTab \in CompareTabs
      /\ nodeColumnSelections' =
           [k \in DOMAIN nodeColumnSelections |->
              IF nodeColumnSelections[k].nodeId = nodeColumnSelections[j].nodeId
                THEN [nodeColumnSelections[k] EXCEPT !.column = col]
                ELSE nodeColumnSelections[k]]
      /\ UNCHANGED <<cmpTab, cmpBusy, cmpPending, cmpAlert>>
      /\ UNCHANGED <<wsVars, selVars>>
      /\ UNCHANGED exceptCompare

\* Token Frequency, handleAnalyze up to the await, run by a click on the
\* enabled Calculate button.
HandleAnalyze ==
  /\ cmpTab = "tokenFrequency"
  /\ ~AnalyzeDisabled
  /\ IF currentWorkspaceId = "null" \/ Len(selectedNodeIds) = 0
       THEN UNCHANGED <<cmpBusy, cmpPending, cmpAlert>>
       ELSE IF \E j \in DOMAIN nodeColumnSelections : nodeColumnSelections[j].column = ""
         THEN /\ cmpAlert' = "Please select a text column for all selected nodes."
              /\ UNCHANGED <<cmpBusy, cmpPending>>
         ELSE /\ cmpBusy' = TRUE
              /\ cmpPending' = [tab |-> cmpTab,
                                node_ids |-> FirstTwo(selectedNodeIds),
                                node_columns |->
                                  TokenFrequencyNodeColumns(nodeColumnSelections)]
              /\ cmpAlert' = "none"
  /\ UNCHANGED <<cmpTab, nodeColumnSelections>>
  /\ UNCHANGED <<wsVars, selVars>>
  /\ UNCHANGED exceptCompare

\* Topic Modeling, handleRun up to the await, run by a click on the enabled
\* Run button.
HandleRun ==
  /\ cmpTab = "topicModeling"
  /\ ~RunDisabled
  /\ IF currentWorkspaceId = "null" \/ Len(selectedNodeIds) = 0
       THEN UNCHANGED <<cmpBusy, cmpPending, cmpAlert>>
       ELSE IF \E i \in DOMAIN FirstTwo(selectedNodeIds) :
                 ColumnOf(nodeColumnSelections, FirstTwo(selectedNodeIds)[i]) = ""
         THEN /\ cmpAlert' = "Select a text column for all selected nodes"
              /\ UNCHANGED <<cmpBusy, cmpPending>>
         ELSE /\ cmpBusy' = TRUE
              /\ cmpPending' = [tab |-> cmpTab,
                                node_ids |-> FirstTwo(selectedNodeIds),
                                node_columns |->
                                  TopicModelingNodeColumns(nodeColumnSelections)]
              /\ cmpAlert' = "none"
  /\ UNCHANGED <<cmpTab, nodeColumnSelections>>
  /\ UNCHANGED <<wsVars, selVars>>
  /\ UNCHANGED exceptCompare

\* The tab's request settles: finally clears isAnalyzing / isRunning.
CompareSettles ==
  /\ cmpPending # NoRequest
  /\ cmpPending' = NoRequest
  /\ cmpBusy' = FALSE
  /\ UNCHANGED <<cmpTab, nodeColumnSelections, cmpAlert>>
  /\ UNCHANGED <<wsVars, selVars>>
  /\ UNCHANGED exceptCompare

\* The other analysis tab is opened: the tab on display unmounts, the other
\* mounts with fresh state and its effect builds the selections anew.
CompareSwitchTab ==
  \E tab \in CompareTabs \ {cmpTab} :
    /\ cmpTab \in CompareTabs
    /\ cmpTab' = tab
    /\ nodeColumnSelections' =
         SyncSelections(tab, <<>>, SelectedNodes(workspaceGraph, selectedNodeIds))
    /\ cmpBusy' = FALSE
    /\ cmpPending' = NoRequest
    /\ cmpAlert' = "none"
    /\ UNCHANGED <<wsVars, selVars>>
    /\ UNCHANGED exceptCompare

CompareIdle ==
  /\ cmpTab = "none"
  /\ nodeColumnSelections = <<>>
  /\ cmpBusy = FALSE
  /\ cmpPending = NoRequest
  /\ cmpAlert = "none"

\* An analysis tab opens on a workspace of three nodes, none selected yet.
CompareInit ==
  /\ workspaceGraph = GThree
  /\ selectedNodeIds = <<>>
  /\ currentWorkspaceId = "ws"
  /\ SelectionIdle
  /\ cmpTab \in CompareTabs
  /\ nodeColumnSelections = <<>>
  /\ cmpBusy = FALSE
  /\ cmpPending = NoRequest
  /\ cmpAlert = "none"

NextCompare ==
  \/ CompareToggleNode
  \/ HandleColumnChange
  \/ HandleAnalyze
  \/ HandleRun
  \/ CompareSettles
  \/ CompareSwitchTab

-----------------------------------------------------------------------------
(* App tabs, Token Frequency results: token click and right-click.          *)
(* A text here is a sequence of one-character strings.                      *)

AppTabs ==
  {"data-loader", "filter", "token-frequency", "concordance", "analysis",
   "topic-modeling", "export"}

\* Listeners registered on window for the 'navigateToConcordance' event: App
\* and the tabs register none.
NavigateToConcordanceListeners == {}

IsSpace(ch) == ch = " "

\* String.prototype.toLowerCase on the model's alphabet
LowerChar(ch) == IF ch = "A" THEN "a" ELSE IF ch = "B" THEN "b" ELSE ch

ToLowerCase(text) == [i \in DOMAIN text |-> LowerChar(text[i])]

RECURSIVE TrimStart(_)
TrimStart(text) ==
  IF text # <<>> /\ IsSpace(Head(text)) THEN TrimStart(Tail(text)) ELSE text

RECURSIVE TrimEnd(_)
TrimEnd(text) ==
  IF text # <<>> /\ IsSpace(text[Len(text)])
    THEN TrimEnd(SubSeq(text, 1, Len(text) - 1)) ELSE text

\* String.prototype.trim
Trim(text) == TrimEnd(TrimStart(text))

\* String.prototype.split(','): the pieces between commas, empty ones kept.
RECURSIVE SplitComma(_)
SplitComma(text) ==
  IF \E i \in DOMAIN text : text[i] = ","
    THEN LET first == CHOOSE i \in DOMAIN text :
                        text[i] = "," /\ \A j \in 1..(i - 1) : text[j] # ","
         IN <<SubSeq(text, 1, first - 1)>>
              \o SplitComma(SubSeq(text, first + 1, Len(text)))
    ELSE <<text>>

\* Array.prototype.filter(Boolean) on texts
RECURSIVE FilterNonEmpty(_)
FilterNonEmpty(texts) ==
  IF texts = <<>> THEN <<>>
  ELSE IF Head(texts) = <<>> THEN FilterNonEmpty(Tail(texts))
  ELSE <<Head(texts)>> \o FilterNonEmpty(Tail(texts))

\* Array.prototype.join(', ')
RECURSIVE JoinCommaSpace(_)
JoinCommaSpace(texts) ==
  IF texts = <<>> THEN <<>>
  ELSE IF Len(texts) = 1 THEN texts[1]
  ELSE texts[1] \o <<",", " ">> \o JoinCommaSpace(Tail(texts))

\* stopWords.split(',').map(w => w.trim()).filter(Boolean)
CurrentStopWords(text) ==
  FilterNonEmpty([i \in DOMAIN SplitComma(text) |-> Trim(SplitComma(text)[i])])

\* A right-click that compares without folding the case.
StopWordsAfterRightClickCaseSensitive(text, token) ==
  LET current == CurrentStopWords(text)
  IN IF ~(\E i \in DOMAIN current : current[i] = Trim(token))
       THEN JoinCommaSpace(Append(current, token))
       ELSE text

\* handleTokenRightClick: the stop-word text after a right-click on token.
StopWordsAfterRightClick(text, token) ==
  LET tokenNorm == ToLowerCase(Trim(token))
      current == CurrentStopWords(text)
  IN IF ~(\E i \in DOMAIN current : ToLowerCase(current[i]) = tokenNorm)
       THEN JoinCommaSpace(Append(current, token))
       ELSE text

\* Tokens of the results: words, in either case, one with a space around it.
Tokens == {<<"a">>, <<"A">>, <<"b">>, <<" ", "B">>}

\* Texts a user types into the stop-word box.
StopWordTexts ==
  {<<>>, <<"b", ",", "A">>, <<" ", "a", "b", " ", ",", ",", "b">>}

\* localStorage without the item
NoPendingSearch ==
  [stored |-> FALSE, searchWord |-> <<>>, nodeColumnSelections |-> <<>>,
   selectedNodes |-> <<>>]

NoTokenEvent == [kind |-> "none", token |-> <<>>, before |-> <<>>, repeat |-> FALSE]

\* setActiveTab(tab) and the render that follows: the tab panel on display
\* unmounts and loses its state, the panel of the new tab mounts. App renders
\* no panel for 'topic-modeling'.
ShowTab(tab) ==
  /\ activeTab' = tab
  /\ IF tab = activeTab
       THEN UNCHANGED <<cmpVars, tfResults, stopWords>>
       ELSE /\ cmpTab' = IF tab = "token-frequency" THEN "tokenFrequency" ELSE "none"
            /\ nodeColumnSelections' =
                 IF tab = "token-frequency"
                   THEN SyncSelections("tokenFrequency", <<>>,
                                       SelectedNodes(workspaceGraph, selectedNodeIds))
                   ELSE <<>>
            /\ cmpBusy' = FALSE
            /\ cmpPending' = NoRequest
            /\ cmpAlert' = "none"
            /\ tfResults' = FALSE
            /\ stopWords' = <<>>

\* A tab button of the sidebar: onTabChange(tab)
SidebarTabChange ==
  \E tab \in AppTabs :
    /\ ShowTab(tab)
    /\ lastTokenEvent' = [NoTokenEvent EXCEPT !.kind = "tab"]
    /\ UNCHANGED pendingConcordanceSearch
    /\ UNCHANGED <<wsVars, selVars>>
    /\ UNCHANGED exceptTokens

\* The response of the token-frequency request: setResults, then finally.
TokenAnalysisResponse ==
  \E ok \in BOOLEAN :
    /\ cmpTab = "tokenFrequency"
    /\ cmpPending # NoRequest
    /\ cmpPending' = NoRequest
    /\ cmpBusy' = FALSE
    /\ tfResults' = ok
    /\ lastTokenEvent' = [NoTokenEvent EXCEPT !.kind = "results"]
    /\ UNCHANGED <<cmpTab, nodeColumnSelections, cmpAlert>>
    /\ UNCHANGED <<activeTab, pendingConcordanceSearch, stopWords>>
    /\ UNCHANGED <<wsVars, selVars>>
    /\ UNCHANGED exceptTokens

\* The stop-word box: onChange sets the text typed.
StopWordsEdit ==
  \E text \in StopWordTexts :
    /\ cmpTab = "tokenFrequency"
    /\ stopWords' = text
    /\ lastTokenEvent' = [NoTokenEvent EXCEPT !.kind = "edit"]
    /\ UNCHANGED <<activeTab, pendingConcordanceSearch, tfResults>>
    /\ UNCHANGED <<wsVars, selVars, cmpVars>>
    /\ UNCHANGED exceptTokens

\* handleTokenClick: store the search parameters, dispatch the
\* 'navigateToConcordance' event; a listener, if any, would switch the tab.
HandleTokenClick ==
  \E token \in Tokens :
    /\ cmpTab = "tokenFrequency"
    /\ tfResults
    /\ pendingConcordanceSearch' =
         [stored |-> TRUE, searchWord |-> token,
          nodeColumnSelections |-> nodeColumnSelections,
          selectedNodes |-> selectedNodeIds]
    /\ IF NavigateToConcordanceListeners # {}
         THEN ShowTab("concordance")
         ELSE UNCHANGED <<activeTab, cmpVars, tfResults, stopWords>>
    /\ lastTokenEvent' = [kind |-> "click", token |-> token, before |-> stopWords,
                          repeat |-> FALSE]
    /\ UNCHANGED <<wsVars, selVars>>
    /\ UNCHANGED exceptTokens

\* handleTokenRightClick
HandleTokenRightClick ==
  \E token \in Tokens :
    /\ cmpTab = "tokenFrequency"
    /\ tfResults
    /\ stopWords' = StopWordsAfterRightClick(stopWords, token)
    /\ lastTokenEvent' =
         [kind |-> "rightClick", token |-> token, before |-> stopWords,
          repeat |-> lastTokenEvent.kind = "rightClick" /\ lastTokenEvent.token = token]
    /\ UNCHANGED <<activeTab, pendingConcordanceSearch, tfResults>>
    /\ UNCHANGED <<wsVars, selVars, cmpVars>>
    /\ UNCHANGED exceptTokens

TokensIdle ==
  /\ pendingConcordanceSearch = NoPendingSearch
  /\ tfResults = FALSE
  /\ stopWords = <<>>
  /\ lastTokenEvent = NoTokenEvent

\* The Token Frequency tab is open on a workspace with one or two nodes
\* selected.
TokensInit ==
  /\ workspaceGraph = GThree
  /\ selectedNodeIds \in {<<"n1">>, <<"n1", "n2">>}
  /\ currentWorkspaceId = "ws"
  /\ SelectionIdle
  /\ activeTab = "token-frequency"
  /\ cmpTab = "tokenFrequency"
  /\ nodeColumnSelections =
       SyncSelections("tokenFrequency", <<>>, SelectedNodes(workspaceGraph, selectedNodeIds))
  /\ cmpBusy = FALSE
  /\ cmpPending = NoRequest
  /\ cmpAlert = "none"
  /\ TokensIdle

NextTokens ==
  \/ SidebarTabChange
  \/ HandleColumnChange
  \/ HandleAnalyze
  \/ TokenAnalysisResponse
  \/ StopWordsEdit
  \/ HandleTokenClick
  \/ HandleTokenRightClick

-----------------------------------------------------------------------------
(* TimelineTab: group-by columns and the analysis request.                  *)
(* Column names are texts (sequences of characters), '' is <<>>.            *)

\* Columns of the selected node: a date column and another one.
TimelineColumns == <<(<<"d">>), (<<"a">>)>>

\* The effect that picks a time column when none is chosen: the first
\* datetime-like column, here the first one.
AutoSelectTimeColumn(col) ==
  IF Len(TimelineColumns) > 0 /\ col = <<>> THEN TimelineColumns[1] ELSE col

\* A request that keeps every entry.
ValidGroupByColumnsUnfiltered(cols) == cols

\* groupByColumns.filter(col => col.trim() !== '')
RECURSIVE ValidGroupByColumns(_)
ValidGroupByColumns(cols) ==
  IF cols = <<>> THEN <<>>
  ELSE IF Trim(Head(cols)) # <<>>
    THEN <<Head(cols)>> \o ValidGroupByColumns(Tail(cols))
    ELSE ValidGroupByColumns(Tail(cols))

\* validGroupByColumns.length > 0 ? validGroupByColumns : null
GroupByField(valid) ==
  IF Len(valid) > 0 THEN [null |-> FALSE, columns |-> valid]
  ELSE [null |-> TRUE, columns |-> <<>>]

NoTimelineRequest ==
  [sent |-> FALSE, time_column |-> <<>>, group_by_columns |-> GroupByField(<<>>),
   from |-> <<>>]

\* disabled={groupByColumns.length >= 3}
AddGroupDisabled == Len(groupByColumns) >= MaxGroupBy

\* disabled={isAnalyzing || isLoading.operations}
TimelineAnalyzeDisabled == tlAnalyzing \/ opsLoading

HandleAddGroupByColumn ==
  /\ activeTab = "analysis"
  /\ ~AddGroupDisabled
  /\ groupByColumns' = IF Len(groupByColumns) < MaxGroupBy
                         THEN Append(groupByColumns, <<>>)
                         ELSE groupByColumns
  /\ UNCHANGED <<timeColumn, tlAnalyzing, tlRequest, tlAlert>>
  /\ UNCHANGED exceptTimeline

HandleRemoveGroupByColumn ==
  \E index \in DOMAIN groupByColumns :
    /\ activeTab = "analysis"
    /\ groupByColumns' =
         [j \in 1..(Len(groupByColumns) - 1) |->
            IF j < index THEN groupByColumns[j] ELSE groupByColumns[j + 1]]
    /\ UNCHANGED <<timeColumn, tlAnalyzing, tlRequest, tlAlert>>
    /\ UNCHANGED exceptTimeline

HandleGroupByColumnChange ==
  \E index \in DOMAIN groupByColumns, value \in Range(TimelineColumns) \cup {<<>>} :
    /\ activeTab = "analysis"
    /\ groupByColumns' = [groupByColumns EXCEPT ![index] = value]
    /\ UNCHANGED <<timeColumn, tlAnalyzing, tlRequest, tlAlert>>
    /\ UNCHANGED exceptTimeline

\* The time-column select, followed by the auto-select effect.
TimeColumnChange ==
  \E value \in Range(TimelineColumns) \cup {<<>>} :
    /\ activeTab = "analysis"
    /\ timeColumn' = AutoSelectTimeColumn(value)
    /\ UNCHANGED <<groupByColumns, tlAnalyzing, tlRequest, tlAlert>>
    /\ UNCHANGED exceptTimeline

\* handleAnalyze up to the await, run by a click on the enabled button.
TimelineHandleAnalyze ==
  /\ activeTab = "analysis"
  /\ ~TimelineAnalyzeDisabled
  /\ IF SelectedNodeId = "null" \/ currentWorkspaceId = "null"
       THEN /\ tlAlert' = "Please select a node first"
            /\ UNCHANGED <<tlAnalyzing, tlRequest>>
       ELSE IF timeColumn = <<>>
         THEN /\ tlAlert' = "Please select a time column"
              /\ UNCHANGED <<tlAnalyzing, tlRequest>>
         ELSE /\ tlRequest' =
                   [sent |-> TRUE, time_column |-> timeColumn,
                    group_by_columns |-> GroupByField(ValidGroupByColumns(groupByColumns)),
                    from |-> groupByColumns]
              /\ tlAnalyzing' = TRUE
              /\ tlAlert' = "none"
  /\ UNCHANGED <<timeColumn, groupByColumns>>
  /\ UNCHANGED exceptTimeline

\* frequencyAnalysis settles: catch raises the alert, finally clears isAnalyzing.
TimelineSettles ==
  \E ok \in BOOLEAN :
    /\ tlAnalyzing
    /\ tlAnalyzing' = FALSE
    /\ tlAlert' = IF ok THEN tlAlert ELSE "Error performing frequency analysis"
    /\ UNCHANGED <<timeColumn, groupByColumns, tlRequest>>
    /\ UNCHANGED exceptTimeline

TimelineIdle ==
  /\ timeColumn = <<>>
  /\ groupByColumns = <<>>
  /\ tlAnalyzing = FALSE
  /\ tlRequest = NoTimelineRequest
  /\ tlAlert = "none"

\* The Timeline tab is open on a selected node whose columns are known; the
\* auto-select effect has run.
TimelineInit ==
  /\ workspaceGraph = GTwoEdge
  /\ selectedNodeIds \in {<<>>, <<"n1">>}
  /\ currentWorkspaceId = "ws"
  /\ SelectionIdle
  /\ timeColumn = AutoSelectTimeColumn(<<>>)
  /\ groupByColumns = <<>>
  /\ tlAnalyzing = FALSE
  /\ tlRequest = NoTimelineRequest
  /\ tlAlert = "none"

NextTimeline ==
  \/ HandleAddGroupByColumn
  \/ HandleRemoveGroupByColumn
  \/ HandleGroupByColumnChange
  \/ TimeColumnChange
  \/ TimelineHandleAnalyze
  \/ TimelineSettles

-----------------------------------------------------------------------------
(* JoinInterface: the join form shown for two selected nodes *)

\* The <option> values of the Join Type select.
JoinTypeOptions == {"inner", "left", "right", "outer"}

\* Columns of the two nodes.
LeftNodeColumns == <<"id", "text">>
RightNodeColumnSets == {<<"id", "year">>, <<"year">>}

\* leftColumns.filter(leftCol => rightColumns.includes(leftCol))
FindCommonColumns(leftColumns, rightColumns) ==
  SelectSeq(leftColumns, LAMBDA c : c \in Range(rightColumns))

\* The effect run when the nodes are given: the first common column, or ''.
DefaultJoinColumn(leftColumns, rightColumns) ==
  IF Len(FindCommonColumns(leftColumns, rightColumns)) > 0
    THEN FindCommonColumns(leftColumns, rightColumns)[1]
    ELSE ""

\* The loading prop; the parent leaves it at its default.
JoinLoadingProp == FALSE

NoJoinCall == [called |-> FALSE, left |-> "", right |-> "", joinType |-> "left",
               chosen |-> "left"]

\* disabled={!leftOn || !rightOn || loading || isLoading}
JoinButtonDisabled ==
  leftOn = "" \/ rightOn = "" \/ JoinLoadingProp \/ joinIsLoading

JoinHandleColumnChange ==
  \E side \in {"left", "right"}, column \in {"", "id", "text", "year"} :
    /\ IF side = "left"
         THEN column \in Range(LeftNodeColumns) \cup {""}
         ELSE column \in {"", "id", "year"}
    /\ leftOn' = IF side = "left" THEN column ELSE leftOn
    /\ rightOn' = IF side = "right" THEN column ELSE rightOn
    /\ UNCHANGED <<how, joinIsLoading, joinCall, joinAlert>>
    /\ UNCHANGED exceptJoin

\* The Join Type select: setHow(e.target.value).
SetHow ==
  \E value \in JoinTypeOptions :
    /\ ~JoinLoadingProp
    /\ how' = value
    /\ UNCHANGED <<leftOn, rightOn, joinIsLoading, joinCall, joinAlert>>
    /\ UNCHANGED exceptJoin

\* handleJoin up to the await.
HandleJoin ==
  /\ ~JoinButtonDisabled
  /\ IF leftOn = "" \/ rightOn = ""
       THEN /\ joinAlert' = "Please select columns to join on"
            /\ UNCHANGED <<joinIsLoading, joinCall>>
       ELSE /\ joinIsLoading' = TRUE
            /\ joinCall' = [called |-> TRUE, left |-> leftOn, right |-> rightOn,
                            joinType |-> how, chosen |-> how]
            /\ joinAlert' = "none"
  /\ UNCHANGED <<leftOn, rightOn, how>>
  /\ UNCHANGED exceptJoin

\* onJoin settles: the form is reset on success, an alert is raised on failure.
JoinSettles ==
  \E ok \in BOOLEAN :
    /\ joinIsLoading
    /\ joinIsLoading' = FALSE
    /\ IF ok
         THEN /\ leftOn' = "" /\ rightOn' = "" /\ how' = "left"
              /\ UNCHANGED joinAlert
         ELSE /\ joinAlert' = "Failed to join nodes. Please try again."
              /\ UNCHANGED <<leftOn, rightOn, how>>
    /\ UNCHANGED joinCall
    /\ UNCHANGED exceptJoin

JoinIdle ==
  /\ leftOn = "" /\ rightOn = "" /\ how = "left"
  /\ joinIsLoading = FALSE
  /\ joinCall = NoJoinCall
  /\ joinAlert = "none"

\* The form is shown for two nodes; the effect has picked the default columns.
JoinInit ==
  /\ \E rightColumns \in RightNodeColumnSets :
       /\ leftOn = DefaultJoinColumn(LeftNodeColumns, rightColumns)
       /\ rightOn = DefaultJoinColumn(LeftNodeColumns, rightColumns)
  /\ how = "left"
  /\ joinIsLoading = FALSE
  /\ joinCall = NoJoinCall
  /\ joinAlert = "none"

NextJoin == JoinHandleColumnChange \/ SetHow \/ HandleJoin \/ JoinSettles

-----------------------------------------------------------------------------
(* ConcordanceTab: search, sorting, paging and page size.                   *)

\* Math.min and Math.max
Min(a, b) == IF a < b THEN a ELSE b
Max(a, b) == IF a > b THEN a ELSE b

\* Values of the "Results per page" select that are used.
PageSizeOptions == {10, 20}

\* Sortable columns of the result table that are used.
SortableColumns == {"l1"}

\* Search words typed: none, or a word.
SearchWords == {<<>>, <<"w">>}

\* results.pagination.total_pages of the search on display.
TotalPages == 2

\* The values of one render that a handler created in it closes over.
RenderValues ==
  [searchWord |-> cnSearchWord, currentPage |-> currentPage, pageSize |-> pageSize,
   sortBy |-> sortBy, sortOrder |-> sortOrder]

\* sort_by: sortBy || undefined
SortByField(s) == IF s = "" THEN "undefined" ELSE s

\* The four request fields as the values rv give them.
RequestFields(rv, page) ==
  [page |-> page, page_size |-> rv.pageSize, sort_by |-> SortByField(rv.sortBy),
   sort_order |-> rv.sortOrder]

NoResults == [present |-> FALSE, id |-> 0, current_page |-> 0]

NoSearch == [trigger |-> "none",
             request |-> [page |-> 0, page_size |-> 0, sort_by |-> "undefined",
                          sort_order |-> "asc"],
             want |-> [page |-> 0, page_size |-> 0, sort_by |-> "undefined",
                       sort_order |-> "asc"]]

\* disabled={isSearching || isLoading.operations}
SearchDisabled == isSearching \/ opsLoading

\* handleSearch(resetPage) of the render with values rv, up to its await.
\* `trigger` and `want` record what asked for the search and the form values
\* that the handler asking for it has set.
HandleSearch(rv, resetPage, trigger, want) ==
  IF SelectedNodeId = "null"
    THEN \* alert('Please select a node first')
         UNCHANGED <<currentPage, isSearching, cnInFlight, cnIssued, cnLast>>
    ELSE IF Trim(rv.searchWord) = <<>>
      THEN \* alert('Please select a column and enter a search word')
           UNCHANGED <<currentPage, isSearching, cnInFlight, cnIssued, cnLast>>
      ELSE /\ cnIssued < MaxSearches
           /\ currentPage' = IF resetPage THEN 1 ELSE currentPage
           /\ isSearching' = TRUE
           /\ cnIssued' = cnIssued + 1
           /\ cnInFlight' = cnInFlight \cup
                {[id |-> cnIssued + 1,
                  page |-> IF resetPage THEN 1 ELSE rv.currentPage]}
           /\ cnLast' = [trigger |-> trigger,
                         request |-> RequestFields(rv, IF resetPage THEN 1
                                                        ELSE rv.currentPage),
                         want |-> want]

\* The search word input.
SearchWordChange ==
  \E w \in SearchWords :
    /\ cnSearchWord' = w
    /\ UNCHANGED <<currentPage, pageSize, sortBy, sortOrder, isSearching, results,
                   cnTimers, cnInFlight, cnIssued, cnLast, cnLatestOk>>
    /\ UNCHANGED exceptConcordance

\* The Search button: handleSearch(true) of the current render.
SearchClick ==
  /\ ~SearchDisabled
  /\ HandleSearch(RenderValues, TRUE, "search",
                  RequestFields(RenderValues, 1))
  /\ UNCHANGED <<cnSearchWord, pageSize, sortBy, sortOrder, results, cnTimers, cnLatestOk>>
  /\ UNCHANGED exceptConcordance

\* handleClearResults
HandleClearResults ==
  /\ results.present
  /\ results' = NoResults
  /\ currentPage' = 1
  /\ sortBy' = ""
  /\ sortOrder' = "asc"
  /\ cnLatestOk' = 0
  /\ UNCHANGED <<cnSearchWord, pageSize, isSearching, cnTimers, cnInFlight, cnIssued,
                 cnLast>>
  /\ UNCHANGED exceptConcordance

\* handleSort: a click on a sortable header of the result table. The timer
\* callback calls the handleSearch of the render the click happened in.
HandleSort ==
  \E columnName \in SortableColumns :
    /\ results.present
    /\ Len(cnTimers) < MaxTimers
    /\ IF sortBy = columnName
         THEN /\ sortOrder' = IF sortOrder = "asc" THEN "desc" ELSE "asc"
              /\ UNCHANGED sortBy
         ELSE /\ sortBy' = columnName
              /\ sortOrder' = "asc"
    /\ cnTimers' = Append(cnTimers,
         [closure |-> RenderValues, trigger |-> "sort",
          want |-> RequestFields([RenderValues EXCEPT !.sortBy = sortBy',
                                                      !.sortOrder = sortOrder'],
                                 currentPage)])
    /\ UNCHANGED <<cnSearchWord, currentPage, pageSize, isSearching, results, cnInFlight,
                   cnIssued, cnLast, cnLatestOk>>
    /\ UNCHANGED exceptConcordance

\* The pages the pagination controls lead to: Previous, the numbered buttons, Next.
PageButtons ==
  IF results.present /\ TotalPages > 1
    THEN (IF results.current_page > 1 THEN {currentPage - 1} ELSE {})
         \cup {n \in 1..TotalPages :
                 \E i \in 0..(Min(5, TotalPages) - 1) : n = Max(1, currentPage - 2) + i}
         \cup (IF results.current_page < TotalPages THEN {currentPage + 1} ELSE {})
    ELSE {}

\* handlePageChange
HandlePageChange ==
  \E newPage \in PageButtons :
    /\ newPage \in 0..MaxPage
    /\ Len(cnTimers) < MaxTimers
    /\ currentPage' = newPage
    /\ cnTimers' = Append(cnTimers,
         [closure |-> RenderValues, trigger |-> "page",
          want |-> RequestFields(RenderValues, newPage)])
    /\ UNCHANGED <<cnSearchWord, pageSize, sortBy, sortOrder, isSearching, results,
                   cnInFlight, cnIssued, cnLast, cnLatestOk>>
    /\ UNCHANGED exceptConcordance

\* onChange of the page size select
PageSizeChange ==
  \E size \in PageSizeOptions :
    /\ results.present
    /\ size # pageSize
    /\ Len(cnTimers) < MaxTimers
    /\ pageSize' = size
    /\ currentPage' = 1
    /\ cnTimers' = Append(cnTimers,
         [closure |-> RenderValues, trigger |-> "size",
          want |-> RequestFields([RenderValues EXCEPT !.pageSize = size], 1)])
    /\ UNCHANGED <<cnSearchWord, sortBy, sortOrder, isSearching, results, cnInFlight,
                   cnIssued, cnLast, cnLatestOk>>
    /\ UNCHANGED exceptConcordance

\* A setTimeout callback runs: handleSearch(false) of the render it closes over.
TimerFires ==
  /\ cnTimers # <<>>
  /\ HandleSearch(Head(cnTimers).closure, FALSE, Head(cnTimers).trigger,
                  Head(cnTimers).want)
  /\ cnTimers' = Tail(cnTimers)
  /\ UNCHANGED <<cnSearchWord, pageSize, sortBy, sortOrder, results, cnLatestOk>>
  /\ UNCHANGED exceptConcordance

\* concordanceSearch settles: setResults on success, an alert on failure,
\* setIsSearching(false) in either case.
SearchSettles ==
  \E r \in cnInFlight, ok \in BOOLEAN :
    /\ cnInFlight' = cnInFlight \ {r}
    /\ IF ok
         THEN /\ results' = [present |-> TRUE, id |-> r.id, current_page |-> r.page]
              /\ cnLatestOk' = Max(cnLatestOk, r.id)
         ELSE \* alert('Error performing concordance search: ...')
              UNCHANGED <<results, cnLatestOk>>
    /\ isSearching' = FALSE
    /\ UNCHANGED <<cnSearchWord, currentPage, pageSize, sortBy, sortOrder, cnTimers,
                   cnIssued, cnLast>>
    /\ UNCHANGED exceptConcordance

ConcordanceIdle ==
  /\ cnSearchWord = <<>>
  /\ currentPage = 1
  /\ pageSize = 20
  /\ sortBy = ""
  /\ sortOrder = "asc"
  /\ isSearching = FALSE
  /\ results = NoResults
  /\ cnTimers = <<>>
  /\ cnInFlight = {}
  /\ cnIssued = 0
  /\ cnLast = NoSearch
  /\ cnLatestOk = 0

\* The Concordance tab is open on a selected node.
ConcordanceInit ==
  /\ workspaceGraph = GTwoEdge
  /\ selectedNodeIds = <<"n1">>
  /\ currentWorkspaceId = "ws"
  /\ SelectionIdle
  /\ ConcordanceIdle

NextConcordance ==
  \/ SearchWordChange
  \/ SearchClick
  \/ HandleClearResults
  \/ HandleSort
  \/ HandlePageChange
  \/ PageSizeChange
  \/ TimerFires
  \/ SearchSettles

-----------------------------------------------------------------------------
(* Specifications: one per subsystem, the others at rest *)

InitAuth == AuthInit /\ HealthIdle /\ WorkspaceIdle /\ SelectionIdle /\ GraphViewIdle /\ MutationIdle /\ FilterIdle /\ RequestsIdle /\ CompareIdle
  /\ TokensIdle /\ activeTab = "data-loader" /\ TimelineIdle /\ JoinIdle /\ ConcordanceIdle
SpecAuth == InitAuth /\ [][NextAuth]_vars

\* Every auth request is answered or fails: the pending calls settle.
SpecAuthFair ==
  /\ InitAuth /\ [][NextAuth]_vars
  /\ WF_vars(FetchSettle)

InitHealth == HealthIdle /\ AuthIdle /\ WorkspaceIdle /\ SelectionIdle /\ GraphViewIdle /\ MutationIdle /\ FilterIdle /\ RequestsIdle /\ CompareIdle
  /\ TokensIdle /\ activeTab = "data-loader" /\ TimelineIdle /\ JoinIdle /\ ConcordanceIdle
SpecHealth == InitHealth /\ [][NextHealth]_vars

InitSelection == SelectionInit /\ AuthIdle /\ HealthIdle /\ GraphViewIdle /\ MutationIdle /\ FilterIdle /\ RequestsIdle /\ CompareIdle
  /\ TokensIdle /\ activeTab = "data-loader" /\ TimelineIdle /\ JoinIdle /\ ConcordanceIdle
SpecSelection == InitSelection /\ [][NextSelection]_vars

InitGraphView == GraphViewInit /\ AuthIdle /\ HealthIdle /\ MutationIdle /\ FilterIdle /\ RequestsIdle /\ CompareIdle
  /\ TokensIdle /\ activeTab = "data-loader" /\ TimelineIdle /\ JoinIdle /\ ConcordanceIdle
SpecGraphView == InitGraphView /\ [][NextGraphView]_vars

InitMutation == MutationInit /\ AuthIdle /\ HealthIdle /\ FilterIdle /\ RequestsIdle /\ CompareIdle
  /\ TokensIdle /\ activeTab = "data-loader" /\ TimelineIdle /\ JoinIdle /\ ConcordanceIdle
SpecMutation == InitMutation /\ [][NextMutation]_vars

InitFilter == FilterInit /\ AuthIdle /\ HealthIdle /\ GraphViewIdle /\ MutationIdle /\ RequestsIdle /\ CompareIdle
  /\ TokensIdle /\ activeTab = "filter" /\ TimelineIdle /\ JoinIdle /\ ConcordanceIdle
SpecFilter == InitFilter /\ [][NextFilter]_vars

InitRequests ==
  /\ RequestsIdle /\ AuthIdle /\ HealthIdle /\ WorkspaceIdle /\ SelectionIdle
  /\ GraphViewIdle /\ MutationIdle /\ FilterIdle /\ CompareIdle
  /\ TokensIdle /\ activeTab = "data-loader" /\ TimelineIdle /\ JoinIdle /\ ConcordanceIdle
SpecRequests == InitRequests /\ [][NextRequests]_vars

InitCompare ==
  /\ CompareInit /\ AuthIdle /\ HealthIdle /\ GraphViewIdle /\ MutationIdle
  /\ FilterIdle /\ RequestsIdle
  /\ TokensIdle /\ TimelineIdle /\ JoinIdle /\ ConcordanceIdle
  /\ activeTab = IF cmpTab = "tokenFrequency" THEN "token-frequency" ELSE "topic-modeling"
SpecCompare == InitCompare /\ [][NextCompare]_vars

InitTokens ==
  /\ TokensInit /\ AuthIdle /\ HealthIdle /\ GraphViewIdle /\ MutationIdle
  /\ FilterIdle /\ RequestsIdle /\ TimelineIdle /\ JoinIdle /\ ConcordanceIdle
SpecTokens == InitTokens /\ [][NextTokens]_vars

InitTimeline ==
  /\ TimelineInit /\ AuthIdle /\ HealthIdle /\ GraphViewIdle /\ MutationIdle
  /\ FilterIdle /\ RequestsIdle /\ CompareIdle /\ TokensIdle /\ activeTab = "analysis"
  /\ JoinIdle /\ ConcordanceIdle
SpecTimeline == InitTimeline /\ [][NextTimeline]_vars

InitJoin ==
  /\ JoinInit /\ AuthIdle /\ HealthIdle /\ WorkspaceIdle /\ SelectionIdle
  /\ GraphViewIdle /\ MutationIdle /\ FilterIdle /\ RequestsIdle /\ CompareIdle
  /\ TokensIdle /\ activeTab = "data-loader" /\ TimelineIdle /\ ConcordanceIdle
SpecJoin == InitJoin /\ [][NextJoin]_vars

InitConcordance ==
  /\ ConcordanceInit /\ AuthIdle /\ HealthIdle /\ GraphViewIdle /\ MutationIdle
  /\ FilterIdle /\ RequestsIdle /\ CompareIdle /\ TokensIdle /\ activeTab = "concordance"
  /\ TimelineIdle /\ JoinIdle
SpecConcordance == InitConcordance /\ [][NextConcordance]_vars

-----------------------------------------------------------------------------
(* Claims about useAuth and App *)

\* C1: at any time at most one getAuthInfo request is outstanding, it is the
\* one inFlight names, and a call of fetchAuthInfoOnce made while a request is
\* in flight issues no new request and returns the in-flight promise.
C1_SingleAuthRequest ==
  /\ [](/\ Cardinality(authRequests) <= 1
        /\ (inFlight = 0) <=> (authRequests = {})
        /\ \A r \in authRequests : r.id = inFlight)
  /\ [][(inFlight # 0 /\ lastReturned' # 0)
          => (issued' = issued /\ authRequests' = authRequests
              /\ lastReturned' = inFlight)]_vars

\* C1 witness: a second caller arrived while a request was in flight and was
\* handed the in-flight promise.
C1_Witness ==
  /\ inFlight # 0
  /\ lastReturned = inFlight
  /\ issued = 1
  /\ listeners = 2
  /\ Cardinality(authRequests) = 1

\* C2: in multi-user mode App never renders the main UI for a user who is
\* not authenticated (it renders the loading screen or the login screen).
C2_NoMainUIWhenUnauthenticated ==
  (listeners > 0 /\ backendMultiUser /\ ~hasToken) => AppScreen \in {"loading", "login"}

-----------------------------------------------------------------------------
(* Claims about useBackendHealth *)

\* C3: the backend is reported ready only after a successful check: isHealthy
\* is false until a check has completed, and isHealthy implies status =
\* 'healthy', error = null and that the check that completed last got an OK
\* response whose body status was 'healthy'.
C3_HealthyOnlyAfterSuccess ==
  /\ (lastCompleted.id = 0 => ~isHealthy)
  /\ (isHealthy => /\ status = "healthy"
                   /\ healthError = "null"
                   /\ (hMounted => lastCompleted.outcome = "ok_healthy"))

\* C3 witness: a healthy report reached after an earlier failed check.
C3_Witness ==
  /\ isHealthy
  /\ hMounted
  /\ lastCompleted.id >= 2
  /\ lastCompleted.outcome = "ok_healthy"

-----------------------------------------------------------------------------
(* Claims about selection *)

\* C4: in every state the sidebar checkbox of a node is checked iff the
\* node's id is in selectedNodeIds, and changing a checkbox issues exactly one
\* toggleNodeSelection call, for that node id, and no other selection operation.
C4_SidebarFollowsSelection ==
  /\ DOMAIN sidebarChecked = GraphNodeIds(workspaceGraph)
  /\ \A id \in GraphNodeIds(workspaceGraph) :
       sidebarChecked[id] <=> (id \in Range(selectedNodeIds))
  /\ (lastEvent.kind = "checkbox"
        => selCalls = <<[op |-> "toggle", id |-> lastEvent.id]>>)

\* C4 witness: a checkbox was changed while another node was already selected,
\* and both are ticked.
C4_Witness ==
  /\ lastEvent.kind = "checkbox"
  /\ Len(selectedNodeIds) = 2
  /\ selectedNodeIds[2] = lastEvent.id
  /\ sidebarChecked[selectedNodeIds[1]]
  /\ sidebarChecked[selectedNodeIds[2]]

-----------------------------------------------------------------------------
(* Claims about the graph view's update *)

\* C6: graph re-rendering is gated and debounced on the derived signatures:
\* a run of the update effect schedules no update when node ids, edges and
\* node signature equal those on display and otherwise schedules one after
\* cancelling the one scheduled before, so at most one update is pending at
\* any time (the one updateRafRef names) and an animation frame applies at
\* most one update however many graph changes preceded it.
C6_GatedDebouncedUpdate ==
  /\ Cardinality(rafQueue) <= 1
  /\ \A cb \in rafQueue : cb.id = updateRafRef
  /\ appliedInFrame <= 1
  /\ (lastEffect.ran => (lastEffect.scheduled <=> ~lastEffect.equal))

\* C6 witness: a burst of graph changes within one frame ended in a single
\* applied update.
C6_Witness ==
  /\ burstAtFrame >= 2
  /\ appliedInFrame = 1
  /\ nodes # <<>>

-----------------------------------------------------------------------------
(* Claims about node mutations *)

\* C7: a node mutation invoked from the graph view invalidates the cached
\* node-data and node-schema queries of that node in the current workspace
\* only after the mutation call has settled, so that no refetch triggered by
\* it reads the data as it was before the mutation; with no current
\* workspace nothing is invalidated.
C7_InvalidateAfterSettle ==
  /\ (lastInvalidation.ws = "null" => lastInvalidation.keys = {})
  /\ (lastInvalidation.ws # "null" /\ lastInvalidation.mut # 0 =>
        /\ [key |-> "nodeData", ws |-> lastInvalidation.ws, node |-> lastInvalidation.node]
             \in lastInvalidation.keys
        /\ [key |-> "nodeSchema", ws |-> lastInvalidation.ws, node |-> lastInvalidation.node]
             \in lastInvalidation.keys
        /\ lastInvalidation.settled)
  /\ preMutationReads = {}

-----------------------------------------------------------------------------
(* Claims about the Filter tab *)

\* C8 as stated: while any filter condition has an empty column, the Apply
\* Filter button is disabled.
C8_DisabledWhileEmptyColumn ==
  (FormRendered /\ HasEmptyColumn(conditions)) => ApplyDisabled

\* C8 as amended: the Apply Filter button stays enabled while a condition has
\* an empty column, but a click on it then raises the alert 'Please fill in
\* all filter conditions' and sends no request: no filter request sent
\* carries a condition with an empty column.
C8_EmptyColumnNeverSent ==
  /\ \A i \in DOMAIN filterSent : filterSent[i].column # ""
  /\ (lastApply.sent => filterSent # <<>>)
  /\ ((lastApply.clicked /\ lastApply.emptyColumn) =>
        /\ ~lastApply.sent
        /\ filterAlert = "Please fill in all filter conditions")

\* C8 witness: Apply Filter was clicked while the second condition had no
\* column (the first being complete and a value typed in the second); the
\* alert is up and nothing was sent by that click.
C8_Witness ==
  /\ lastApply.clicked /\ lastApply.emptyColumn /\ ~lastApply.sent
  /\ filterAlert = "Please fill in all filter conditions"
  /\ Len(conditions) = 2
  /\ conditions[1].column # "" /\ conditions[1].value # ""
  /\ conditions[2].column = "" /\ conditions[2].value # ""
  /\ ~ApplyDisabled

-----------------------------------------------------------------------------
(* Claims about failed requests *)

\* C9: every failed backend request initiated from a tab leaves a
\* user-visible error (an alert dialog or an inline message), and no request
\* is retried: one user action causes one request.
C9_FailuresVisibleNoRetry ==
  /\ (lastFailure.kind # "none" => lastFailure.surface \in {"alert", "inline"})
  /\ reqIssued = userActions

-----------------------------------------------------------------------------
(* Claims about comparing nodes *)

\* C10: only the first two selected nodes are used by a token-frequency or
\* topic-modeling request: the request names at most two node ids, the first
\* two of the selection, its node_columns name no other node, and whether
\* the request may be sent depends on the first two nodes only.
C10_OnlyFirstTwoUsed ==
  /\ (cmpPending # NoRequest =>
        /\ Len(cmpPending.node_ids) <= 2
        /\ \A entry \in cmpPending.node_columns : entry[1] \in Range(cmpPending.node_ids))
  /\ ((/\ cmpTab \in CompareTabs
       /\ Len(selectedNodeIds) > 0
       /\ currentWorkspaceId # "null"
       /\ ~cmpBusy
       /\ \A i \in DOMAIN FirstTwo(selectedNodeIds) :
            ColumnOf(nodeColumnSelections, FirstTwo(selectedNodeIds)[i]) # "")
        => IF cmpTab = "tokenFrequency" THEN ~AnalyzeDisabled ELSE ~RunDisabled)

-----------------------------------------------------------------------------
(* Claims about the Token Frequency results *)

\* C11: after a click on a token of the Token Frequency results the pending
\* search parameters (token, column selections, selected nodes) are stored
\* and the application's active tab is 'concordance'.
C11_TokenClickOpensConcordance ==
  lastTokenEvent.kind = "click" =>
    /\ pendingConcordanceSearch.stored
    /\ pendingConcordanceSearch.searchWord = lastTokenEvent.token
    /\ pendingConcordanceSearch.selectedNodes = selectedNodeIds
    /\ pendingConcordanceSearch.nodeColumnSelections # <<>>
    /\ activeTab = "concordance"

-----------------------------------------------------------------------------
(* Claims about the Timeline tab *)

-----------------------------------------------------------------------------
(* Claims about the join form *)

\* C14: the two-node join form offers exactly the join types inner, left,
\* right, full, semi, anti and cross, and the join type passed to the join
\* operation is always one of these, unchanged from the user's choice.
C14_JoinTypesArePolars ==
  /\ JoinTypeOptions = {"inner", "left", "right", "full", "semi", "anti", "cross"}
  /\ (joinCall.called =>
        /\ joinCall.joinType \in {"inner", "left", "right", "full", "semi", "anti", "cross"}
        /\ joinCall.joinType = joinCall.chosen)

-----------------------------------------------------------------------------
(* Claims about the settling of auth requests *)

\* C15: every auth-info fetch that settles sets isLoading to false, clears
\* the in-flight marker and notifies all registered listeners; if it failed,
\* authInfo becomes null and error is set, so that isAuthenticated,
\* isMultiUserMode and requiresAuthentication read false. Hence, requests
\* settling eventually, a loading state seen by a mounted component is
\* always followed by isLoading being false.
C15_SettleEndsLoading ==
  /\ [][Cardinality(authRequests') < Cardinality(authRequests)
          => /\ globalIsLoading' = FALSE
             /\ inFlight' = 0
             /\ notified' = listeners
             /\ fetchOutcome' \in {"ok", "failed"}
             /\ (fetchOutcome' = "failed" =>
                   /\ globalAuthInfo' = NullInfo
                   /\ globalError' # "null"
                   /\ ~isAuthenticated' /\ ~isMultiUserMode' /\ ~requiresAuthentication')]_vars
  /\ [](listeners > 0 /\ globalIsLoading => <>(~globalIsLoading))

\* C15 witness: a fetch issued after a login failed while two components
\* were mounted; loading is over, both listeners were called, the auth info
\* is gone and the error is set.
C15_Witness ==
  /\ fetchOutcome = "failed"
  /\ hasToken
  /\ listeners = 2 /\ notified = 2
  /\ ~globalIsLoading /\ inFlight = 0
  /\ globalAuthInfo = NullInfo /\ globalError = "err"
  /\ issued >= 2

-----------------------------------------------------------------------------
(* Claims about overlapping health checks *)

\* C16: health checks are neither serialized nor cancelled. When checks
\* overlap, the reported status, isHealthy and error are those of the check
\* that completed last, whichever was started last; no check is started while
\* the hook is unmounted or disabled, but a check in flight at that moment
\* still completes and writes its result.
C16_LastCompletedWins ==
  /\ [](hMounted /\ lastCompleted.id # 0 =>
          /\ isHealthy = CheckResult(lastCompleted.outcome).isHealthy
          /\ status = CheckResult(lastCompleted.outcome).status
          /\ healthError = CheckResult(lastCompleted.outcome).error)
  /\ [][checksStarted' # checksStarted => hMounted' /\ hEnabled' /\ hTimer']_vars
  /\ [][~hTimer' => checksStarted' = checksStarted]_vars
  /\ [][checks' # checks /\ checksStarted' = checksStarted =>
          /\ lastCompleted'.id \in checks
          /\ checks' = checks \ {lastCompleted'.id}
          /\ lastCompleted'.enabled = hEnabled
          /\ lastCompleted'.mounted = hMounted]_vars

\* C16 witness: two checks overlapped, the second completed first, the hook
\* was then disabled, and the first check, completing last, wrote its result.
C16_Witness ==
  /\ hMounted /\ ~hEnabled /\ ~hTimer
  /\ checksStarted = 2 /\ checks = {}
  /\ lastCompleted.id = 1
  /\ ~lastCompleted.enabled
  /\ lastCompleted.outcome = "ok_healthy"
  /\ isHealthy /\ status = "healthy"

-----------------------------------------------------------------------------
(* Claims about the Concordance tab *)

\* C17: after a page change, a click on a sort header or a page-size change
\* in the Concordance tab, the search request that is triggered carries the
\* new values: page is the requested page, sort_by and sort_order the newly
\* chosen column and order, page_size the newly chosen size, and not the
\* values the form state held before the change.
C17_RequestCarriesNewValues ==
  cnLast.trigger \in {"page", "sort", "size"} => cnLast.request = cnLast.want

\* C18: once all concordance requests have settled the results on display are
\* those of the request issued last among the answered ones; a response to an
\* earlier request that arrives after a later one never replaces the later
\* one's results; and isSearching is true whenever a request is in flight.
C18_LatestRequestWins ==
  /\ (results.present => results.id = cnLatestOk)
  /\ (cnInFlight # {} => isSearching)

====
